---- MODULE Spec2Model ----
(***************************************************************************)
(* The thumbnail table of src/dtgtk/thumbtable.c: a position-indexed LUT   *)
(* over the whole collection (table->lut), a garbage-collected list of     *)
(* allocated thumbnails (table->list), the window of row ids derived from  *)
(* the scroll state, and keyboard navigation.                              *)
(*                                                                         *)
(* Positions (rowid) are 0-based as in the C code; TLA+ sequences are      *)
(* 1-based, so table->lut[i] is table.lut[i + 1].                          *)
(***************************************************************************)
EXTENDS Integers, Sequences, FiniteSets, TLC

VARIABLES
  table,            \* dt_thumbtable_t: the fields the table code reads and writes, and
                    \* life: "ok", "crashed" (undefined behaviour ended the process), "blocked"
                    \* (waiting for a lock its own flow holds), "freed" (after cleanup)
  collection,       \* backing dataset: [query, ids] (darktable.collection + memory.collected_images)
  v_scrollbar,      \* GtkAdjustment of the vertical scrollbar: [value, page_size]
  h_scrollbar,      \* GtkAdjustment of the horizontal scrollbar: [value, page_size]
  mouse_over_id,    \* dt_control_get_mouse_over_id()
  keyboard_over_id, \* dt_control_get_keyboard_over_id()
  selection,        \* dt_selection_get_first_id(darktable.selection)
  host,             \* what the windowing host supplies to dt_thumbtable_configure:
                    \* [width, height] allocated to the parent, cols = "plugins/lighttable/images_in_row"
  ev,               \* history: what the last handler did
  cycle,            \* the call of dt_thumbtable_update in progress: [pc, num, empty_list], its
                    \* position and its locals num_thumb and empty_list
  gamut             \* the call of gamut_check_RGB in progress: [pc, iter, RGB_in, display_black,
                    \* display_white, out], its position, its locals and what it returned

vars == <<table, collection, v_scrollbar, h_scrollbar, mouse_over_id, keyboard_over_id, selection,
          host, ev, cycle, gamut>>

-----------------------------------------------------------------------------
(* Program constants *)

\* the garbage collection threshold of _garbage_collection
THRESHOLD == 210

\* _grid_configure rejects a viewport narrower or lower than this
MIN_VIEW == 32

\* default rowid_max of _update_row_ids
DEFAULT_ROWID_MAX == 210

\* number of prefetch rows before and after the visible rows (_get_row_ids)
MARGIN_ROWS == 2

(* Bounds of the model *)

\* size of the largest collection
MaxCount == 4

\* the collection stops changing while more than this many thumbnails of earlier collections
\* are still allocated (thumbnails that keep their position across a change are not freed,
\* so the list can grow without bound)
MaxOld == 0

-----------------------------------------------------------------------------
(* C arithmetic *)

\* int division, truncating toward zero (b > 0)
CDiv(a, b) == IF a >= 0 THEN a \div b ELSE -((-a) \div b)

\* int remainder, with the sign of the dividend (b > 0)
CMod(a, b) == a - b * CDiv(a, b)

MAX(a, b) == IF a > b THEN a ELSE b
MIN(a, b) == IF a < b THEN a ELSE b

\* glib's CLAMP(x, low, high)
CLAMP(x, low, high) == IF x > high THEN high ELSE IF x < low THEN low ELSE x

NULL == 0

-----------------------------------------------------------------------------
(* Layout *)

\* mutant: the grid is filled column by column
_rowid_to_position_ColumnMajor(t, index, x0, y0) ==
  IF t.mode = "FILEMANAGER"
    THEN <<CDiv(index, t.thumbs_per_row) * t.thumb_width,
           CMod(index, t.thumbs_per_row) * t.thumb_height>>
  ELSE IF t.mode = "FILMSTRIP"
    THEN <<index * t.thumb_width, 0>>
  ELSE <<x0, y0>>

\* _rowid_to_position: <<x, y>> of a position; mode NONE writes neither (the caller's values stay)
_rowid_to_position(t, index, x0, y0) ==
  IF t.mode = "FILEMANAGER"
    THEN <<CMod(index, t.thumbs_per_row) * t.thumb_width,
           CDiv(index, t.thumbs_per_row) * t.thumb_height>>
  ELSE IF t.mode = "FILMSTRIP"
    THEN <<index * t.thumb_width, 0>>
  ELSE <<x0, y0>>

\* _set_thumb_position: the thumbnail with its coordinates recomputed
_set_thumb_position(t, thumb) ==
  IF t.thumbs_per_row < 1 THEN thumb
  ELSE LET p == _rowid_to_position(t, thumb.rowid, thumb.x, thumb.y)
       IN  [thumb EXCEPT !.x = p[1], !.y = p[2]]

-----------------------------------------------------------------------------
(* Undefined behaviour that ends the process (division by zero, NULL dereference) *)

Crash(t) == [t EXCEPT !.life = "crashed", !.locked = FALSE]

Ok(t) == t.life = "ok"

-----------------------------------------------------------------------------
(* table->lock, as the control flow of a handler takes and releases it.  The mutex is not    *)
(* recursive: a flow that locks it while it holds it never returns from the call.            *)

dt_pthread_mutex_lock(t) ==
  IF ~Ok(t) THEN t
  ELSE IF t.locked THEN [t EXCEPT !.life = "blocked"]
  ELSE [t EXCEPT !.locked = TRUE]

dt_pthread_mutex_unlock(t) ==
  IF ~Ok(t) THEN t ELSE [t EXCEPT !.locked = FALSE]

-----------------------------------------------------------------------------
(* Viewport *)

\* _get_row_ids: [ok, min, max, div0]; min and max keep the caller's values when nothing is computed
_get_row_ids(t, vs, hs, rowid_min, rowid_max) ==
  IF ~t.configured
    THEN [ok |-> FALSE, min |-> rowid_min, max |-> rowid_max, div0 |-> FALSE]
  ELSE IF t.mode = "FILEMANAGER"
    THEN IF t.thumb_height = 0
           THEN [ok |-> FALSE, min |-> rowid_min, max |-> rowid_max, div0 |-> TRUE]
           ELSE LET row_min == CDiv(vs.value, t.thumb_height) - MARGIN_ROWS
                    row_max == CDiv(vs.value + vs.page_size, t.thumb_height) + MARGIN_ROWS
                IN  [ok |-> TRUE, min |-> row_min * t.thumbs_per_row,
                     max |-> row_max * t.thumbs_per_row, div0 |-> FALSE]
  ELSE IF t.mode = "FILMSTRIP"
    THEN IF t.thumb_width = 0
           THEN [ok |-> FALSE, min |-> rowid_min, max |-> rowid_max, div0 |-> TRUE]
           ELSE LET row_min == CDiv(hs.value - hs.page_size, t.thumb_width)
                    row_max == CDiv(hs.value + 2 * hs.page_size, t.thumb_width)
                IN  [ok |-> TRUE, min |-> row_min * t.thumbs_per_row,
                     max |-> row_max * t.thumbs_per_row, div0 |-> FALSE]
  ELSE [ok |-> TRUE, min |-> rowid_min, max |-> rowid_max, div0 |-> FALSE]

\* _is_rowid_visible: "yes", "no", or "div0" when thumbs_per_row is 0
_is_rowid_visible(t, vs, hs, rowid) ==
  IF ~t.configured THEN "no"
  ELSE IF t.mode = "FILEMANAGER"
    THEN IF t.thumbs_per_row = 0 THEN "div0"
         ELSE LET page_bottom == vs.page_size + vs.value
                  img_top == CDiv(rowid, t.thumbs_per_row) * t.thumb_height
                  img_bottom == img_top + t.thumb_height
              IN  IF img_top >= vs.value /\ img_bottom <= page_bottom THEN "yes" ELSE "no"
  ELSE IF t.mode = "FILMSTRIP"
    THEN LET page_right == hs.page_size + hs.value
             img_left == rowid * t.thumb_height
             img_right == img_left + t.thumb_width
         IN  IF img_left >= hs.value /\ img_right <= page_right THEN "yes" ELSE "no"
  ELSE "no"

\* _update_row_ids
_update_row_ids(t, vs, hs) ==
  LET r == _get_row_ids(t, vs, hs, 0, DEFAULT_ROWID_MAX)
  IN  IF r.div0 THEN Crash(t)
      ELSE IF r.min # t.min_row_id \/ r.max # t.max_row_id
        THEN [t EXCEPT !.min_row_id = r.min, !.max_row_id = r.max, !.thumbs_inited = FALSE]
        ELSE t

\* _grid_configure, for cols >= 1
_grid_configure(t, width, height, cols) ==
  IF width < MIN_VIEW \/ height < MIN_VIEW THEN t
  ELSE IF t.mode = "FILEMANAGER"
    THEN LET tw == width \div cols
         IN  [t EXCEPT !.thumbs_per_row = cols, !.view_width = width, !.view_height = height,
                       !.thumb_width = tw,
                       !.thumb_height = IF cols = 1 THEN height ELSE tw,
                       !.configured = TRUE]
  ELSE IF t.mode = "FILMSTRIP"
    THEN [t EXCEPT !.thumbs_per_row = 1, !.view_width = width, !.view_height = height,
                   !.thumb_height = height, !.thumb_width = height,
                   !.configured = TRUE]
  ELSE [t EXCEPT !.configured = TRUE]

\* dt_thumbtable_configure; new_width, new_height: the parent's allocation less the scrollbar,
\* conf_cols: "plugins/lighttable/images_in_row"
dt_thumbtable_configure(t, vs, hs, new_width, new_height, conf_cols) ==
  IF t.mode = "NONE" THEN t
  ELSE
    LET cols == IF t.mode = "FILEMANAGER" THEN conf_cols ELSE t.thumbs_per_row
        changed == \/ (new_width > 0 /\ new_width # t.view_width)
                   \/ (new_height > 0 /\ new_height # t.view_height)
                   \/ cols # t.thumbs_per_row
        t1 == IF changed
                THEN _grid_configure([t EXCEPT !.thumbs_inited = FALSE], new_width, new_height, cols)
                ELSE t
    IN  IF ~t1.thumbs_inited THEN _update_row_ids(t1, vs, hs) ELSE t1

-----------------------------------------------------------------------------
(* Thumbnail objects (common/thumbnail.c is a collaborator: create / resize / destroy).     *)
(* table.list holds the thumbnail objects themselves, newest first (g_list_prepend).        *)
(* A pointer to a thumbnail, as table->lut[i].thumb holds one, is the rank of the object in *)
(* the list counted from its tail (1 = the oldest): NULL is 0, and a pointer whose object   *)
(* has been destroyed is DANGLING.                                                          *)

DANGLING == -1

\* the entry of the list a failed dt_thumbnail_new leaves: a NULL pointer
NullThumb ==
  [rowid |-> -1, imgid |-> -1, width |-> 0, height |-> 0, x |-> 0, y |-> 0, old |-> FALSE]

IsNull(th) == th.rowid = -1

\* index in the list of the object a pointer refers to
ListIndex(t, ref) == Len(t.list) - ref + 1

\* pointer to the object at an index of the list
RefOf(t, k) == Len(t.list) - k + 1

\* dt_thumbnail_new: the new object records its position and identifier; `old` is history:
\* whether the object predates the last change of the collection
dt_thumbnail_new(imgid, rowid) ==
  [rowid |-> rowid, imgid |-> imgid, width |-> 0, height |-> 0, x |-> 0, y |-> 0,
   old |-> FALSE]

\* dt_thumbnail_resize(thumb, width, height, TRUE, ...)
dt_thumbnail_resize(thumb, width, height) ==
  [thumb EXCEPT !.width = width, !.height = height]

\* the LUT with the back-reference of position i (0-based) set
LutSetThumb(lut, i, ref) == [lut EXCEPT ![i + 1].thumb = ref]

\* dt_thumbnail_destroy and g_list_delete_link of the k-th link: the object is gone, every
\* pointer still held to it dangles, the pointers to the other objects still reach them
DestroyLink(t, k) ==
  LET r == RefOf(t, k)
      Moved(ref) == IF ref = r THEN DANGLING ELSE IF ref > r THEN ref - 1 ELSE ref
  IN  [t EXCEPT !.list = SubSeq(t.list, 1, k - 1) \o SubSeq(t.list, k + 1, Len(t.list)),
                !.lut = [i \in 1..Len(t.lut) |-> [t.lut[i] EXCEPT !.thumb = Moved(@)]]]

-----------------------------------------------------------------------------
(* The update cycle *)

\* one iteration of the loop of _populate_thumbnails, at position i;
\* a is [t, num]: the table and num_thumb so far
PopulateStep(a, i, fail, uaf) ==
  LET t == a.t
      nid == t.lut[i + 1].imgid
      ref == t.lut[i + 1].thumb
  IN  IF ref = NULL
        THEN IF i \in fail
               \* dt_thumbnail_new returned NULL: it is stored, prepended and counted all the same
               THEN [t |-> [t EXCEPT !.list = <<NullThumb>> \o t.list], num |-> a.num + 1]
               ELSE LET th == _set_thumb_position(t,
                                dt_thumbnail_resize(dt_thumbnail_new(nid, i),
                                                    t.thumb_width, t.thumb_height))
                    IN  [t |-> [t EXCEPT !.lut = LutSetThumb(t.lut, i, Len(t.list) + 1),
                                         !.list = <<th>> \o t.list],
                         num |-> a.num + 1]
      ELSE IF ref = DANGLING
        \* the LUT refers to a destroyed thumbnail: use after free
        THEN IF uaf = "crash" THEN [t |-> Crash(t), num |-> a.num] ELSE a
      ELSE LET k == ListIndex(t, ref)
               th == t.list[k]
               size_changed == t.thumb_height # th.height \/ t.thumb_width # th.width
           IN  IF th.rowid # i \/ th.imgid # nid
                 THEN [t |-> Crash(t), num |-> a.num]   \* assert
               ELSE IF size_changed
                 THEN [t |-> [t EXCEPT !.list[k] =
                                _set_thumb_position(t,
                                  dt_thumbnail_resize(th, t.thumb_width, t.thumb_height))],
                       num |-> a.num]
               ELSE a

\* the loop of _populate_thumbnails over the positions lo .. hi - 1 in increasing order (the
\* range is halved to keep the evaluation shallow); nothing runs after a crash
RECURSIVE PopulateLoop(_, _, _, _, _)
PopulateLoop(a, lo, hi, fail, uaf) ==
  IF lo >= hi \/ ~Ok(a.t) THEN a
  ELSE IF hi = lo + 1 THEN PopulateStep(a, lo, fail, uaf)
  ELSE LET mid == lo + ((hi - lo) \div 2)
           first == PopulateLoop(a, lo, mid, fail, uaf)
       IN  PopulateLoop(first, mid, hi, fail, uaf)

\* mutant: the loop stops one position early
_populate_thumbnails_ShortRange(t, num_thumb, fail, uaf) ==
  LET a == PopulateLoop([t |-> dt_pthread_mutex_lock(t), num |-> num_thumb],
                        MAX(t.min_row_id, 0), MIN(t.max_row_id, t.collection_count) - 1,
                        fail, uaf)
  IN  [t |-> dt_pthread_mutex_unlock(a.t), num |-> a.num]

\* _populate_thumbnails: [t, num]; the loop runs with table->lock held
_populate_thumbnails(t, num_thumb, fail, uaf) ==
  LET a == PopulateLoop([t |-> dt_pthread_mutex_lock(t), num |-> num_thumb],
                        MAX(t.min_row_id, 0), MIN(t.max_row_id, t.collection_count),
                        fail, uaf)
  IN  [t |-> dt_pthread_mutex_unlock(a.t), num |-> a.num]

\* mutant: above the threshold the thumbnails inside the window are evicted
CollectGarbage_InsideWindow(t, th, num) ==
  /\ t.thumb_nb + num > THRESHOLD
  /\ th.rowid >= t.min_row_id /\ th.rowid <= t.max_row_id

\* the eviction test of _garbage_collection for one thumbnail, num thumbnails added so far
CollectGarbage(t, th, num) ==
  /\ t.thumb_nb + num > THRESHOLD
  /\ (th.rowid < t.min_row_id \/ th.rowid > t.max_row_id)

\* is_in_collection of _garbage_collection; a rowid beyond the allocated LUT reads whatever
\* lies behind the array: oob_match says whether that happens to equal the thumbnail's imgid
IsInCollection(t, th, oob_match) ==
  IF th.rowid >= Len(t.lut) THEN oob_match
  ELSE th.imgid = t.lut[th.rowid + 1].imgid

\* one iteration of the loop of _garbage_collection, at the k-th link of the list;
\* a is [t, num, k].  A write of NULL behind the LUT (rowid beyond it) changes nothing here.
GarbageStep(a, oob_match) ==
  LET t == a.t
      th == t.list[a.k]
  IN  IF IsNull(th) THEN [a EXCEPT !.t = Crash(t)]     \* thumb->rowid of a NULL thumbnail
      ELSE
        LET collect_garbage == CollectGarbage(t, th, a.num)
            is_in_collection == IsInCollection(t, th, oob_match)
            t1 == IF collect_garbage /\ is_in_collection /\ th.rowid < Len(t.lut)
                    THEN [t EXCEPT !.lut = LutSetThumb(t.lut, th.rowid, NULL)]
                    ELSE t
        IN  IF collect_garbage \/ ~is_in_collection
              THEN [t |-> DestroyLink(t1, a.k), num |-> a.num - 1, k |-> a.k]
              ELSE [t |-> t1, num |-> a.num, k |-> a.k + 1]

\* n iterations of the loop of _garbage_collection (halved to keep the evaluation shallow);
\* nothing runs after a crash
RECURSIVE GarbageLoop(_, _, _)
GarbageLoop(a, n, oob_match) ==
  IF n <= 0 \/ ~Ok(a.t) THEN a
  ELSE IF n = 1 THEN GarbageStep(a, oob_match)
  ELSE LET first == GarbageLoop(a, n \div 2, oob_match)
       IN  GarbageLoop(first, n - (n \div 2), oob_match)

\* _garbage_collection: [t, num]; the loop visits every link of the list once
_garbage_collection(t, num_thumb, oob_match) ==
  LET a == GarbageLoop([t |-> dt_pthread_mutex_lock(t), num |-> num_thumb, k |-> 1],
                       Len(t.list), oob_match)
  IN  [t |-> dt_pthread_mutex_unlock(a.t), num |-> a.num]

\* the thumbnail as _resize_thumbnails leaves it
ResizeOne(t, th) ==
  LET already_processed == th.rowid >= t.min_row_id /\ th.rowid < t.max_row_id
      size_changed == t.thumb_height # th.height \/ t.thumb_width # th.width
  IN  IF ~already_processed /\ size_changed
        THEN _set_thumb_position(t, dt_thumbnail_resize(th, t.thumb_width, t.thumb_height))
        ELSE th

\* the list holds a NULL thumbnail (a failed allocation): a traversal that reads a field crashes
ListHasNull(t) == \E k \in 1..Len(t.list) : IsNull(t.list[k])

\* _resize_thumbnails
_resize_thumbnails(t) ==
  LET l == dt_pthread_mutex_lock(t)
  IN  IF ~Ok(l) THEN l
      ELSE IF ListHasNull(l) THEN Crash(l)
      ELSE dt_pthread_mutex_unlock(
             [l EXCEPT !.list = [k \in 1..Len(l.list) |-> ResizeOne(l, l.list[k])]])

\* _dt_thumbtable_empty_list: every thumbnail of the list is destroyed; the LUT is not touched,
\* so the pointers it holds dangle
_dt_thumbtable_empty_list(t) ==
  LET l == dt_pthread_mutex_lock(t)
      destroyed == dt_pthread_mutex_unlock(
                     [l EXCEPT !.lut = [i \in 1..Len(l.lut) |->
                                          [l.lut[i] EXCEPT
                                             !.thumb = IF @ = NULL THEN NULL ELSE DANGLING]],
                               !.list = <<>>])
  IN  IF ~Ok(l) THEN l
      ELSE [destroyed EXCEPT !.list = <<>>, !.thumb_nb = 0, !.thumbs_inited = FALSE]

\* the early return of dt_thumbtable_update
UpdateReturnsEarly(t) ==
  ~t.has_lut \/ ~t.configured \/ ~t.collection_inited \/ t.thumbs_inited

\* dt_thumbtable_update, the flush a pending reset_collection asks for
UpdateFlush(t) ==
  IF t.reset_collection
    THEN [_dt_thumbtable_empty_list(t) EXCEPT !.reset_collection = FALSE]
    ELSE t

\* dt_thumbtable_update after _populate_thumbnails returned p = [t, num]; empty_list: whether
\* the list was empty before it: [t, num] after _garbage_collection and _resize_thumbnails
UpdateCollect(p, empty_list, oob_match) ==
  IF ~empty_list /\ Ok(p.t) THEN _garbage_collection(p.t, p.num, oob_match) ELSE p

UpdateResize(g, empty_list) ==
  IF ~empty_list /\ Ok(g.t) THEN [t |-> _resize_thumbnails(g.t), num |-> g.num] ELSE g

\* mutant: the cycle does not record that the thumbnails are initialised
UpdateDone_NotInited(r) ==
  IF ~Ok(r.t) THEN r.t
  ELSE [r.t EXCEPT !.thumb_nb = r.t.thumb_nb + r.num]

\* the end of dt_thumbtable_update: r = [t, num]
UpdateDone(r) ==
  IF ~Ok(r.t) THEN r.t
  ELSE [r.t EXCEPT !.thumb_nb = r.t.thumb_nb + r.num, !.thumbs_inited = TRUE]

\* the reconciliation cycle of dt_thumbtable_update, t1: the table after the flush
UpdateCycle(t1, fail, uaf, oob_match) ==
  UpdateDone(UpdateResize(UpdateCollect(_populate_thumbnails(t1, 0, fail, uaf),
                                        t1.list = <<>>, oob_match),
                          t1.list = <<>>))

\* dt_thumbtable_update; fail: the positions at which dt_thumbnail_new returns NULL,
\* uaf: what a use after free does, oob_match: what a read behind the LUT finds
dt_thumbtable_update(t, fail, uaf, oob_match) ==
  IF UpdateReturnsEarly(t) THEN t
  ELSE UpdateCycle(UpdateFlush(t), fail, uaf, oob_match)

-----------------------------------------------------------------------------
(* Change detection and the LUT *)

\* the value _dt_collection_get_hash computes: dt_hash over the query string, then over the count
Fingerprint(coll) == [query |-> coll.query, count |-> Len(coll.ids)]

\* table->collection_hash = -1 of dt_thumbtable_new: no collection hashes to it
NoFingerprint == [query |-> "", count |-> -1]

\* mutant: the return after a failed malloc leaves table->lock locked
_dt_collection_lut_FailureKeepsLock(t, coll, malloc_ok) ==
  LET l == dt_pthread_mutex_lock([t EXCEPT !.collection_count = Len(coll.ids)])
  IN  IF coll.ids = <<>>
        THEN [t EXCEPT !.collection_count = 0]
      ELSE IF ~Ok(l) THEN l
      ELSE IF ~malloc_ok
        THEN [l EXCEPT !.lut = <<>>, !.has_lut = FALSE]
      ELSE dt_pthread_mutex_unlock(
             [l EXCEPT !.lut = [i \in 1..Len(coll.ids) |->
                                  [imgid |-> coll.ids[i], thumb |-> NULL]],
                       !.has_lut = TRUE])

\* _dt_collection_lut; malloc_ok: whether malloc() of the new LUT succeeds.  The LUT is freed,
\* allocated and filled with table->lock held; both returns that follow the lock release it
_dt_collection_lut(t, coll, malloc_ok) ==
  LET l == dt_pthread_mutex_lock([t EXCEPT !.collection_count = Len(coll.ids)])
  IN  IF coll.ids = <<>>
        THEN [t EXCEPT !.collection_count = 0]
      ELSE IF ~Ok(l) THEN l
      ELSE IF ~malloc_ok
        THEN dt_pthread_mutex_unlock([l EXCEPT !.lut = <<>>, !.has_lut = FALSE])
      ELSE dt_pthread_mutex_unlock(
             [l EXCEPT !.lut = [i \in 1..Len(coll.ids) |->
                                  [imgid |-> coll.ids[i], thumb |-> NULL]],
                       !.has_lut = TRUE])

\* whether _dt_collection_get_hash sees a change
CollectionChanged(t, coll) ==
  Fingerprint(coll) # t.collection_hash \/ t.reset_collection

\* history: the thumbnails allocated so far now predate the collection
MarkOld(t) ==
  [t EXCEPT !.list = [k \in 1..Len(t.list) |->
                        IF IsNull(t.list[k]) THEN t.list[k] ELSE [t.list[k] EXCEPT !.old = TRUE]]]

\* _dt_collection_get_hash
_dt_collection_get_hash(t, coll, malloc_ok) ==
  IF CollectionChanged(t, coll)
    THEN _dt_collection_lut(
           [MarkOld(t) EXCEPT !.collection_hash = Fingerprint(coll),
                              !.collection_count = Len(coll.ids),
                              !.collection_inited = TRUE,
                              !.thumbs_inited = FALSE],
           coll, malloc_ok)
    ELSE t

\* _imgid_to_rowid
_imgid_to_rowid(t, imgid) ==
  IF ~t.has_lut THEN -1
  ELSE LET hits == {i \in 0..(t.collection_count - 1) : t.lut[i + 1].imgid = imgid}
       IN  IF hits = {} THEN -1 ELSE CHOOSE i \in hits : \A j \in hits : i <= j

-----------------------------------------------------------------------------
(* Navigation *)

Directions == {"UP", "DOWN", "LEFT", "RIGHT", "PREVIOUS_PAGE", "NEXT_PAGE", "START", "END"}

\* whether the switch of _move_in_grid divides by thumb_height = 0
MoveDivZero(t, direction) ==
  direction \in {"PREVIOUS_PAGE", "NEXT_PAGE"} /\ t.thumb_height = 0

\* mutant: UP and DOWN move by one position, as in a grid of one column
MoveOffset_SingleColumn(t, direction, origin_imgid) ==
  CASE direction = "UP" -> -1
    [] direction = "DOWN" -> 1
    [] direction = "LEFT" -> -1
    [] direction = "RIGHT" -> 1
    [] direction = "PREVIOUS_PAGE" -> CDiv(- t.view_height, t.thumb_height) * t.thumbs_per_row
    [] direction = "NEXT_PAGE" -> CDiv(t.view_height, t.thumb_height) * t.thumbs_per_row
    [] direction = "START" -> - origin_imgid
    [] direction = "END" -> t.collection_count

\* mutant: END moves by the index of the last position instead of the count
MoveOffset_EndLastIndex(t, direction, origin_imgid) ==
  CASE direction = "UP" -> - t.thumbs_per_row
    [] direction = "DOWN" -> t.thumbs_per_row
    [] direction = "LEFT" -> -1
    [] direction = "RIGHT" -> 1
    [] direction = "PREVIOUS_PAGE" -> CDiv(- t.view_height, t.thumb_height) * t.thumbs_per_row
    [] direction = "NEXT_PAGE" -> CDiv(t.view_height, t.thumb_height) * t.thumbs_per_row
    [] direction = "START" -> - origin_imgid
    [] direction = "END" -> t.collection_count - 1

\* the switch of _move_in_grid: the offset (when it does not divide by zero)
MoveOffset(t, direction, origin_imgid) ==
  CASE direction = "UP" -> - t.thumbs_per_row
    [] direction = "DOWN" -> t.thumbs_per_row
    [] direction = "LEFT" -> -1
    [] direction = "RIGHT" -> 1
    [] direction = "PREVIOUS_PAGE" -> CDiv(- t.view_height, t.thumb_height) * t.thumbs_per_row
    [] direction = "NEXT_PAGE" -> CDiv(t.view_height, t.thumb_height) * t.thumbs_per_row
    [] direction = "START" -> - origin_imgid
    [] direction = "END" -> t.collection_count

\* mutant: the target is clamped at the first position only
MoveTarget_NoUpperClamp(t, direction, origin_imgid) ==
  MAX(_imgid_to_rowid(t, origin_imgid) + MoveOffset(t, direction, origin_imgid), 0)

\* new_rowid of _move_in_grid, for an offset that could be computed
MoveTarget(t, direction, origin_imgid) ==
  CLAMP(_imgid_to_rowid(t, origin_imgid) + MoveOffset(t, direction, origin_imgid),
        0, t.collection_count - 1)

\* gtk_adjustment_set_value on the vertical (which = "v") or horizontal scrollbar, and the
\* value-changed callback _adjust_value_changed it raises; w is [t, vs, hs].
\* The adjustment's lower bound is 0.
SetAdjustment(w, which, value) ==
  LET adj == IF which = "v" THEN w.vs ELSE w.hs
      val == MAX(value, 0)
      vs1 == IF which = "v" THEN [w.vs EXCEPT !.value = val] ELSE w.vs
      hs1 == IF which = "h" THEN [w.hs EXCEPT !.value = val] ELSE w.hs
  IN  IF val = adj.value \/ ~Ok(w.t) THEN w
      ELSE [t |-> _update_row_ids(w.t, vs1, hs1), vs |-> vs1, hs |-> hs1]

\* mutant: an identifier the LUT does not hold scrolls to position 0
dt_thumbtable_scroll_to_imgid_AbsentToStart(w, imgid) ==
  LET t == w.t
      Return(r, code) == [t |-> r.t, vs |-> r.vs, hs |-> r.hs, code |-> code]
  IN  IF ~t.collection_inited \/ imgid < 0 THEN Return(w, 1)
      ELSE IF ~t.has_lut /\ t.collection_count > 0 THEN Return([w EXCEPT !.t = Crash(t)], -1)
      ELSE
        LET rowid == MAX(_imgid_to_rowid(t, imgid), 0)
        IN  IF t.mode = "FILEMANAGER" /\ t.thumbs_per_row = 0
              THEN Return([w EXCEPT !.t = Crash(t)], -1)
            ELSE
              LET p == _rowid_to_position(t, rowid, 0, 0)
                  x == p[1] + CDiv(t.thumb_width, 2)
                  y == p[2] + CDiv(t.thumb_height, 2)
                  w1 == SetAdjustment(w, "v", y - CDiv(t.view_height, 2))
              IN  Return(SetAdjustment(w1, "h", x - CDiv(t.view_width, 2)), 0)

\* dt_thumbtable_scroll_to_imgid; w is [t, vs, hs]; the result is [t, vs, hs, code], code
\* being the value returned (-1: the process died, nothing is returned)
dt_thumbtable_scroll_to_imgid(w, imgid) ==
  LET t == w.t
      Return(r, code) == [t |-> r.t, vs |-> r.vs, hs |-> r.hs, code |-> code]
  IN  IF ~t.collection_inited \/ imgid < 0 THEN Return(w, 1)
      ELSE IF ~t.has_lut /\ t.collection_count > 0 THEN Return([w EXCEPT !.t = Crash(t)], -1)
      ELSE
        LET rowid == _imgid_to_rowid(t, imgid)
        IN  IF rowid = -1 THEN Return(w, 0)
            ELSE IF t.mode = "FILEMANAGER" /\ t.thumbs_per_row = 0
              THEN Return([w EXCEPT !.t = Crash(t)], -1)
            ELSE
              LET p == _rowid_to_position(t, rowid, 0, 0)
                  x == p[1] + CDiv(t.thumb_width, 2)
                  y == p[2] + CDiv(t.thumb_height, 2)
                  w1 == SetAdjustment(w, "v", y - CDiv(t.view_height, 2))
              IN  Return(SetAdjustment(w1, "h", x - CDiv(t.view_width, 2)), 0)

\* _move_in_grid; w is [t, vs, hs]; oob_imgid: what a read outside the LUT finds;
\* fail, uaf, oob_match: as for dt_thumbtable_update.
\* The result is [t, vs, hs, imgid, rowid, how]: the table and scrollbars, the identifier and
\* position moved to, and how = "scroll", "refresh" or "crash"
\* The parts of _move_in_grid come first: what it does once new_rowid and new_imgid are known
MoveDead(w) ==
  [t |-> Crash(w.t), vs |-> w.vs, hs |-> w.hs, imgid |-> -1, rowid |-> -1, how |-> "crash"]

\* the branch of _move_in_grid for a target that is not visible; w1: after the scroll
MoveScrolled(w1, new_imgid, new_rowid) ==
  [t |-> w1.t, vs |-> w1.vs, hs |-> w1.hs, imgid |-> new_imgid, rowid |-> new_rowid,
   how |-> IF Ok(w1.t) THEN "scroll" ELSE "crash"]

\* the branch of _move_in_grid for a visible target; t1: after the update
MoveRefreshed(w, t1, new_imgid, new_rowid) ==
  [t |-> t1, vs |-> w.vs, hs |-> w.hs, imgid |-> new_imgid, rowid |-> new_rowid,
   how |-> IF Ok(t1) THEN "refresh" ELSE "crash"]

\* mutant: the target is scrolled to whether it is visible or not
MoveTo_AlwaysScroll(w, new_imgid, new_rowid, visible, fail, uaf, oob_match) ==
  IF visible = "div0" THEN MoveDead(w)
  ELSE MoveScrolled(dt_thumbtable_scroll_to_imgid(w, new_imgid), new_imgid, new_rowid)

\* _move_in_grid once new_rowid and new_imgid are known; visible: _is_rowid_visible(new_rowid)
MoveTo(w, new_imgid, new_rowid, visible, fail, uaf, oob_match) ==
  IF visible = "div0" THEN MoveDead(w)
  ELSE IF visible = "no"
    THEN MoveScrolled(dt_thumbtable_scroll_to_imgid(w, new_imgid), new_imgid, new_rowid)
  ELSE MoveRefreshed(w, dt_thumbtable_update([w.t EXCEPT !.thumbs_inited = FALSE],
                                             fail, uaf, oob_match),
                     new_imgid, new_rowid)

\* table->lut[new_rowid].imgid
MoveImgid(t, new_rowid, oob_imgid) ==
  IF new_rowid >= 0 /\ new_rowid < Len(t.lut) THEN t.lut[new_rowid + 1].imgid ELSE oob_imgid

\* _move_in_grid; table->lut[new_rowid] is read with table->lock held, and the lock is
\* released before the scroll or the update
_move_in_grid(w, direction, origin_imgid, oob_imgid, fail, uaf, oob_match) ==
  IF MoveDivZero(w.t, direction) \/ ~w.t.has_lut THEN MoveDead(w)
  ELSE LET new_rowid == MoveTarget(w.t, direction, origin_imgid)
           read == dt_pthread_mutex_unlock(dt_pthread_mutex_lock(w.t))
       IN  IF ~Ok(read) THEN [MoveDead(w) EXCEPT !.t = read]
           ELSE MoveTo([w EXCEPT !.t = read], MoveImgid(w.t, new_rowid, oob_imgid), new_rowid,
                       _is_rowid_visible(w.t, w.vs, w.hs, new_rowid), fail, uaf, oob_match)

\* mutant: the hovered image takes precedence over the keyboard focus
KeyOrigin_HoverFirst(t, kbd, mouse, sel) ==
  IF mouse >= 0 THEN mouse
  ELSE IF kbd >= 0 THEN kbd
  ELSE IF sel >= 0 THEN sel
  ELSE IF t.has_lut THEN t.lut[1].imgid
  ELSE -1

\* the image _key_pressed_grid starts from
KeyOrigin(t, kbd, mouse, sel) ==
  IF kbd >= 0 THEN kbd
  ELSE IF mouse >= 0 THEN mouse
  ELSE IF sel >= 0 THEN sel
  ELSE IF t.has_lut THEN t.lut[1].imgid
  ELSE -1

-----------------------------------------------------------------------------
(* History *)

\* nothing is materialized: the list is empty and the LUT holds no back-reference
Fresh(t) == t.list = <<>> /\ \A k \in 1..Len(t.lut) : t.lut[k].thumb = NULL

\* no navigation key was handled
NoNav == [direction |-> "NONE", origin |-> -1, rowid |-> -1, how |-> "none"]

\* what a handler that ended in dt_thumbtable_update, called on tpre and returning tpost, did:
\* update: the handler's last call was dt_thumbtable_update and it returned;
\* ran: a cycle ran and completed; fresh: nothing was materialized when it started;
\* again: the handler was a bare dt_thumbtable_update that followed another one directly;
\* nav: the navigation key handled: [direction, origin, rowid, how]
EvUpdate(tpre, tpost) ==
  [update |-> Ok(tpost), ran |-> ~UpdateReturnsEarly(tpre) /\ Ok(tpost),
   fresh |-> ~UpdateReturnsEarly(tpre) /\ Ok(tpost) /\ Fresh(tpre),
   again |-> FALSE, nav |-> NoNav]

EvOther == [update |-> FALSE, ran |-> FALSE, fresh |-> FALSE, again |-> FALSE, nav |-> NoNav]

\* no call of gamut_check_RGB is in progress
NoPixel == [pc |-> "idle", iter |-> 0, RGB_in |-> <<0, 0, 0>>, display_black |-> 0,
            display_white |-> 0, out |-> <<0, 0, 0>>]

\* no call of dt_thumbtable_update is in progress
Idle == [pc |-> "idle", num |-> 0, empty_list |-> TRUE]

-----------------------------------------------------------------------------
(* Inputs *)

\* image ids of the collections: 1..n in order, every id shifted by one, or n..1 (the
\* collection sorted in descending order)
Ids(kind, n) ==
  [i \in 1..n |-> IF kind = "shift" THEN i + 1 ELSE IF kind = "reverse" THEN n + 1 - i ELSE i]

\* the collections the backing dataset takes: the same query with 0, 2 or MaxCount images
\* (the first images keep their positions), and another query whose result moves every image
Collections ==
  {[query |-> "A", ids |-> Ids("same", n)] : n \in {0, 2, MaxCount}}
  \cup {[query |-> "B", ids |-> Ids("shift", MaxCount)]}

\* allocations of the parent widget and column counts of the configuration:
\* one and two columns, a width _grid_configure rejects, more columns than pixels
Hosts ==
  {[width |-> 64, height |-> 32, cols |-> 1], [width |-> 64, height |-> 32, cols |-> 2],
   [width |-> 20, height |-> 32, cols |-> 1], [width |-> 32, height |-> 32, cols |-> 33]}

ScrollValues == {0, 96}

Modes == {"FILEMANAGER", "FILMSTRIP"}

\* images the selection starts with: none, or an image of the larger collections
SelectionIds == {-1, 3}

NoFail == {}

\* what the run time decides in one handler: the positions at which dt_thumbnail_new fails,
\* what a use after free does, what a read outside the LUT finds, whether malloc of the LUT succeeds
Lucky == [fail |-> NoFail, uaf |-> "crash", oob_match |-> FALSE, oob_imgid |-> -1,
          malloc_ok |-> TRUE]

Chances ==
  {Lucky,
   [Lucky EXCEPT !.uaf = "continue", !.oob_match = TRUE, !.oob_imgid = 1]}

-----------------------------------------------------------------------------
(* State after dt_thumbtable_new *)

\* the callbacks dt_thumbtable_new connects to the signals of darktable.signals with the
\* table as user data
Connected ==
  {"_dt_collection_changed_callback", "_dt_selection_changed_callback",
   "_dt_profile_change_callback", "_dt_mipmaps_updated_callback",
   "_dt_image_info_changed_callback", "_mouse_over_image_callback"}

\* the callbacks dt_thumbtable_cleanup disconnects
Disconnected ==
  {"_dt_mipmaps_updated_callback", "_dt_collection_changed_callback",
   "_dt_selection_changed_callback", "_dt_profile_change_callback",
   "_dt_image_info_changed_callback"}

\* the table dt_thumbtable_new returns: calloc, then the fields it sets; signals: the
\* callbacks connected with the table as user data
NewTable ==
  [life |-> "ok", mode |-> "NONE",
   thumbs_per_row |-> 0, view_width |-> 0, view_height |-> 0,
   thumb_width |-> 0, thumb_height |-> 0, configured |-> FALSE,
   collection_hash |-> NoFingerprint, collection_count |-> 0,
   collection_inited |-> FALSE, thumbs_inited |-> FALSE, reset_collection |-> FALSE,
   has_lut |-> FALSE, lut |-> <<>>, list |-> <<>>,
   thumb_nb |-> 0, min_row_id |-> 0, max_row_id |-> 0,
   locked |-> FALSE, signals |-> Connected]

Init ==
  /\ table = NewTable
  /\ collection \in Collections
  /\ v_scrollbar = [value |-> 0, page_size |-> 0]
  /\ h_scrollbar = [value |-> 0, page_size |-> 0]
  /\ mouse_over_id = -1
  /\ keyboard_over_id = -1
  /\ selection = -1
  /\ host \in Hosts
  /\ ev = EvOther
  /\ cycle = Idle
  /\ gamut = NoPixel

-----------------------------------------------------------------------------
(* Handlers. c is what the run time decides: [fail, uaf, oob_match, oob_imgid, malloc_ok] *)

\* the windowing host allocates a new size to the parent, or the column count is reconfigured
HostResize(hst) ==
  /\ Ok(table)
  /\ hst # host
  /\ host' = hst
  /\ v_scrollbar' = [v_scrollbar EXCEPT !.page_size = hst.height]
  /\ h_scrollbar' = [h_scrollbar EXCEPT !.page_size = hst.width]
  /\ ev' = EvOther
  /\ UNCHANGED <<gamut, table, collection, mouse_over_id, keyboard_over_id, selection, cycle>>

\* dt_thumbtable_configure called on its own
Configure ==
  /\ Ok(table)
  /\ table' = dt_thumbtable_configure(table, v_scrollbar, h_scrollbar,
                                       host.width, host.height, host.cols)
  /\ ev' = EvOther
  /\ UNCHANGED <<gamut, collection, v_scrollbar, h_scrollbar, mouse_over_id, keyboard_over_id,
                 selection, host, cycle>>

\* dt_thumbtable_update called on its own
Update(c) ==
  /\ Ok(table)
  /\ table' = dt_thumbtable_update(table, c.fail, c.uaf, c.oob_match)
  /\ ev' = [EvUpdate(table, table') EXCEPT !.again = ev.update]
  /\ UNCHANGED <<gamut, collection, v_scrollbar, h_scrollbar, mouse_over_id, keyboard_over_id,
                 selection, host, cycle>>

\* _draw_callback
Draw(c) ==
  /\ Ok(table)
  /\ LET t1 == dt_thumbtable_configure(table, v_scrollbar, h_scrollbar,
                                        host.width, host.height, host.cols)
         t2 == IF Ok(t1) THEN dt_thumbtable_update(t1, c.fail, c.uaf, c.oob_match) ELSE t1
     IN  /\ table' = t2
         /\ ev' = EvUpdate(t1, t2)
  /\ UNCHANGED <<gamut, collection, v_scrollbar, h_scrollbar, mouse_over_id, keyboard_over_id,
                 selection, host, cycle>>

\* the user scrolls along the axis of the mode: _adjust_value_changed
Scroll(value) ==
  /\ Ok(table)
  /\ table.mode # "NONE"
  /\ LET w == SetAdjustment([t |-> table, vs |-> v_scrollbar, hs |-> h_scrollbar],
                            IF table.mode = "FILEMANAGER" THEN "v" ELSE "h", value)
     IN  /\ table' = w.t
         /\ v_scrollbar' = w.vs
         /\ h_scrollbar' = w.hs
  /\ ev' = EvOther
  /\ UNCHANGED <<gamut, collection, mouse_over_id, keyboard_over_id, selection, host, cycle>>

\* the collection becomes coll (or stays): _dt_collection_changed_callback
CollectionChangedCallback(coll, c) ==
  /\ Ok(table)
  /\ Cardinality({k \in 1..Len(table.list) : table.list[k].old}) <= MaxOld
  /\ collection' = coll
  /\ LET t1 == _dt_collection_get_hash(table, coll, c.malloc_ok)
         t2 == dt_thumbtable_configure(t1, v_scrollbar, h_scrollbar,
                                        host.width, host.height, host.cols)
         t3 == IF Ok(t2) THEN dt_thumbtable_update(t2, c.fail, c.uaf, c.oob_match) ELSE t2
     IN  /\ table' = t3
         /\ ev' = EvUpdate(t2, t3)
  /\ UNCHANGED <<gamut, v_scrollbar, h_scrollbar, mouse_over_id, keyboard_over_id, selection, host, cycle>>

\* dt_thumbtable_reset_collection
ResetCollection ==
  /\ Ok(table)
  /\ ~table.reset_collection
  /\ table' = [table EXCEPT !.reset_collection = TRUE]
  /\ ev' = EvOther
  /\ UNCHANGED <<gamut, collection, v_scrollbar, h_scrollbar, mouse_over_id, keyboard_over_id,
                 selection, host, cycle>>

\* dt_thumbtable_set_parent
SetParent(mode, c) ==
  /\ Ok(table)
  /\ table.mode # mode
  /\ LET t0 == IF ListHasNull(table) THEN Crash(table) ELSE [table EXCEPT !.mode = mode]
         t1 == IF Ok(t0)
                 THEN dt_thumbtable_configure(t0, v_scrollbar, h_scrollbar,
                                              host.width, host.height, host.cols)
                 ELSE t0
         t2 == IF Ok(t1) THEN dt_thumbtable_update(t1, c.fail, c.uaf, c.oob_match) ELSE t1
     IN  /\ table' = t2
         /\ ev' = EvUpdate(t1, t2)
  /\ mouse_over_id' = IF mode = "FILEMANAGER" THEN selection ELSE mouse_over_id
  /\ UNCHANGED <<gamut, collection, v_scrollbar, h_scrollbar, keyboard_over_id, selection, host, cycle>>

\* _key_pressed_grid once _move_in_grid returned m
KeyMoved(m, direction, origin) ==
  /\ table' = m.t
  /\ v_scrollbar' = m.vs
  /\ h_scrollbar' = m.hs
  /\ mouse_over_id' = IF m.how = "crash" THEN mouse_over_id ELSE m.imgid
  /\ keyboard_over_id' = IF m.how = "crash" THEN keyboard_over_id ELSE m.imgid
  /\ ev' = [(IF m.how = "refresh"
               THEN EvUpdate([table EXCEPT !.thumbs_inited = FALSE], m.t)
               ELSE EvOther)
             EXCEPT !.nav = [direction |-> direction, origin |-> origin,
                             rowid |-> m.rowid, how |-> m.how]]

\* _key_pressed_grid for an UP or DOWN key outside the file manager: nothing moves
KeyIgnored(direction, origin) ==
  /\ ev' = [EvOther EXCEPT !.nav = [direction |-> direction, origin |-> origin,
                                    rowid |-> -1, how |-> "ignored"]]
  /\ UNCHANGED <<gamut, table, v_scrollbar, h_scrollbar, mouse_over_id, keyboard_over_id>>

\* _key_pressed_grid with one of the navigation keys, starting from origin
KeyFrom(direction, origin, c) ==
  IF direction \in {"UP", "DOWN"} /\ table.mode # "FILEMANAGER"
    THEN KeyIgnored(direction, origin)
    ELSE KeyMoved(_move_in_grid([t |-> table, vs |-> v_scrollbar, hs |-> h_scrollbar],
                                direction, origin, c.oob_imgid, c.fail, c.uaf, c.oob_match),
                  direction, origin)

\* _key_pressed_grid with one of the navigation keys
KeyPressed(direction, c) ==
  /\ Ok(table)
  /\ KeyFrom(direction, KeyOrigin(table, keyboard_over_id, mouse_over_id, selection), c)
  /\ UNCHANGED <<gamut, collection, selection, host, cycle>>

\* the pointer hovers another image or leaves the grid (_event_main_leave):
\* _mouse_over_image_callback reads every thumbnail of the list
MouseOver(id) ==
  /\ Ok(table) \/ (table.life = "freed" /\ "_mouse_over_image_callback" \in table.signals)
  /\ id # mouse_over_id
  /\ mouse_over_id' = id
  /\ IF Ok(table)
       THEN table' = LET l == dt_pthread_mutex_lock(table)
                     IN  IF ListHasNull(l) THEN Crash(l) ELSE dt_pthread_mutex_unlock(l)
       \* the callback locks and reads a table that was freed: the reads find what the
       \* table held and nothing more happens, or the process dies
       ELSE \E outcome \in {"freed", "crashed"} : table' = [table EXCEPT !.life = outcome]
  /\ ev' = EvOther
  /\ UNCHANGED <<gamut, collection, v_scrollbar, h_scrollbar, keyboard_over_id, selection, host, cycle>>

\* the selection changes: _dt_selection_changed_callback reads every thumbnail of the list
Select(id) ==
  /\ Ok(table)
  /\ id # selection
  /\ selection' = id
  /\ table' = LET l == dt_pthread_mutex_lock(table)
               IN  IF ListHasNull(l) THEN Crash(l) ELSE dt_pthread_mutex_unlock(l)
  /\ ev' = EvOther
  /\ UNCHANGED <<gamut, collection, v_scrollbar, h_scrollbar, mouse_over_id, keyboard_over_id, host, cycle>>

\* dt_thumbtable_cleanup: callbacks are disconnected, the list is emptied, then the LUT and
\* the table are freed (nothing of the table is left to read)
Cleanup ==
  /\ Ok(table)
  /\ table' = [NewTable EXCEPT !.life = "freed",
                               !.signals = table.signals \ Disconnected,
                               !.list = _dt_thumbtable_empty_list(table).list]
  /\ ev' = EvOther
  /\ UNCHANGED <<gamut, collection, v_scrollbar, h_scrollbar, mouse_over_id, keyboard_over_id,
                 selection, host, cycle>>

-----------------------------------------------------------------------------
(* Specification *)

\* The table is attached to one parent (the lighttable grid or the filmstrip) and stays there.
Next ==
  \/ \E hst \in Hosts : HostResize(hst)
  \/ Configure
  \/ \E c \in Chances : Update(c)
  \/ \E c \in Chances : Draw(c)
  \/ \E value \in ScrollValues : Scroll(value)
  \/ \E coll \in Collections, c \in Chances : CollectionChangedCallback(coll, c)
  \/ ResetCollection
  \/ \E mode \in Modes, c \in Chances : table.mode = "NONE" /\ SetParent(mode, c)
  \/ Cleanup
  \/ \E id \in {-1, 1} : table.life = "freed" /\ MouseOver(id)

Spec == Init /\ [][Next]_vars

-----------------------------------------------------------------------------
(* Keyboard navigation: the table in the lighttable or the filmstrip, the keys of *)
(* _key_pressed_grid, the pointer and the selection.                              *)

\* a two-column grid, and an allocation _grid_configure rejects
NavHosts ==
  {[width |-> 64, height |-> 32, cols |-> 2], [width |-> 20, height |-> 32, cols |-> 1]}

\* the query in ascending order with 0, 2 or MaxCount images, and in descending order
NavCollections ==
  {[query |-> "A", ids |-> Ids("same", n)] : n \in {0, 2, MaxCount}}
  \cup {[query |-> "C", ids |-> Ids("reverse", MaxCount)]}

\* nothing hovered, an image of every non-empty collection, an image of no collection
NavHoverIds == {-1, 2, 9}

InitNav ==
  /\ table = NewTable
  /\ collection \in NavCollections
  /\ v_scrollbar = [value |-> 0, page_size |-> 0]
  /\ h_scrollbar = [value |-> 0, page_size |-> 0]
  /\ mouse_over_id = -1
  /\ keyboard_over_id = -1
  /\ selection = -1
  /\ host \in NavHosts
  /\ ev = EvOther
  /\ cycle = Idle
  /\ gamut = NoPixel

NextNav ==
  \/ \E hst \in NavHosts : HostResize(hst)
  \/ Draw(Lucky)
  \/ \E coll \in NavCollections : CollectionChangedCallback(coll, Lucky)
  \/ \E mode \in Modes : table.mode = "NONE" /\ SetParent(mode, Lucky)
  \/ \E direction \in Directions : KeyPressed(direction, Lucky)
  \/ \E id \in NavHoverIds : MouseOver(id)
  \/ \E id \in SelectionIds : Select(id)

SpecNav == InitNav /\ [][NextNav]_vars

-----------------------------------------------------------------------------
(* A collection larger than THRESHOLD in a grid whose window holds THRESHOLD thumbnails *)

\* size of the large collection
BigCount == 220

\* 10 columns of 32 pixels, 17 rows visible: a window of (17 + 2 * MARGIN_ROWS) * 10 positions
BigHost == [width |-> 320, height |-> 544, cols |-> 10]

BigCollections ==
  {[query |-> "A", ids |-> Ids("same", BigCount)], [query |-> "B", ids |-> Ids("shift", BigCount)]}

\* scroll offsets: the top, and the rows 2, 3 and 4 at the top of the viewport
BigScrollValues == {0, 64, 96, 128}

InitBig ==
  /\ table = NewTable
  /\ collection \in BigCollections
  /\ v_scrollbar = [value |-> 0, page_size |-> BigHost.height]
  /\ h_scrollbar = [value |-> 0, page_size |-> BigHost.width]
  /\ mouse_over_id = -1
  /\ keyboard_over_id = -1
  /\ selection = -1
  /\ host = BigHost
  /\ ev = EvOther
  /\ cycle = Idle
  /\ gamut = NoPixel

NextBig ==
  \/ Update(Lucky)
  \/ \E value \in BigScrollValues : Scroll(value)
  \/ \E coll \in BigCollections : CollectionChangedCallback(coll, Lucky)
  \/ ResetCollection
  \/ table.mode = "NONE" /\ SetParent("FILEMANAGER", Lucky)

SpecBig == InitBig /\ [][NextBig]_vars

-----------------------------------------------------------------------------
(* Scrolling forward row by row through a collection larger than THRESHOLD, in a grid whose *)
(* window is smaller than THRESHOLD                                                        *)

\* size of the collection scrolled through
ScrollCount == 300

\* the last row the viewport is scrolled to
MaxScrollRow == 8

\* 30 columns of 32 pixels, one row visible: a window of (1 + 2 * MARGIN_ROWS) * 30 positions
ScrollHost == [width |-> 960, height |-> 32, cols |-> 30]

ScrollCollections == {[query |-> "A", ids |-> Ids("same", ScrollCount)]}

InitScroll ==
  /\ table = NewTable
  /\ collection \in ScrollCollections
  /\ v_scrollbar = [value |-> 0, page_size |-> ScrollHost.height]
  /\ h_scrollbar = [value |-> 0, page_size |-> ScrollHost.width]
  /\ mouse_over_id = -1
  /\ keyboard_over_id = -1
  /\ selection = -1
  /\ host = ScrollHost
  /\ ev = EvOther
  /\ cycle = Idle
  /\ gamut = NoPixel

\* a scroll event that moves the viewport down by one row
ScrollForward ==
  /\ table.configured
  /\ v_scrollbar.value < MaxScrollRow * table.thumb_height
  /\ Scroll(v_scrollbar.value + table.thumb_height)

NextScroll ==
  \/ table.mode = "NONE" /\ SetParent("FILEMANAGER", Lucky)
  \/ \E coll \in ScrollCollections : CollectionChangedCallback(coll, Lucky)
  \/ ScrollForward
  \/ Draw(Lucky)

SpecScroll == InitScroll /\ [][NextScroll]_vars

-----------------------------------------------------------------------------
(* Allocation failures: dt_thumbnail_new returns NULL, malloc of the LUT returns NULL *)

\* dt_thumbnail_new fails at position 1
ThumbnailFails == [Lucky EXCEPT !.fail = {1}]

\* malloc of the new LUT fails
MallocFails == [Lucky EXCEPT !.malloc_ok = FALSE]

FailChances == {Lucky, ThumbnailFails, MallocFails}

FailHost == [width |-> 64, height |-> 32, cols |-> 2]

FailCollections == {[query |-> "A", ids |-> Ids("same", n)] : n \in {2, MaxCount}}

InitFail ==
  /\ table = NewTable
  /\ collection \in FailCollections
  /\ v_scrollbar = [value |-> 0, page_size |-> FailHost.height]
  /\ h_scrollbar = [value |-> 0, page_size |-> FailHost.width]
  /\ mouse_over_id = -1
  /\ keyboard_over_id = -1
  /\ selection = -1
  /\ host = FailHost
  /\ ev = EvOther
  /\ cycle = Idle
  /\ gamut = NoPixel

NextFail ==
  \/ \E mode \in Modes, c \in FailChances : table.mode = "NONE" /\ SetParent(mode, c)
  \/ \E coll \in FailCollections, c \in FailChances : CollectionChangedCallback(coll, c)
  \/ \E c \in FailChances : Draw(c)
  \/ \E value \in ScrollValues : Scroll(value)
  \/ \E id \in NavHoverIds : MouseOver(id)
  \/ ResetCollection
  \/ \E direction \in {"LEFT", "RIGHT"}, c \in FailChances : KeyPressed(direction, c)

SpecFail == InitFail /\ [][NextFail]_vars

-----------------------------------------------------------------------------
(* The update cycle one critical section at a time. dt_thumbtable_update does not take       *)
(* table->lock itself: _populate_thumbnails, _garbage_collection and _resize_thumbnails each *)
(* lock and unlock it.  A critical section is one step; between two steps the lock is free   *)
(* and another control flow that takes it runs: here the rebuild of the LUT.                 *)

LockCollections ==
  {[query |-> "A", ids |-> Ids("same", n)] : n \in {2, MaxCount}}
  \cup {[query |-> "B", ids |-> Ids("shift", MaxCount)]}

InitLock ==
  /\ table = NewTable
  /\ collection \in LockCollections
  /\ v_scrollbar = [value |-> 0, page_size |-> FailHost.height]
  /\ h_scrollbar = [value |-> 0, page_size |-> FailHost.width]
  /\ mouse_over_id = -1
  /\ keyboard_over_id = -1
  /\ selection = -1
  /\ host = FailHost
  /\ ev = EvOther
  /\ cycle = Idle
  /\ gamut = NoPixel

\* dt_thumbtable_update up to the call of _populate_thumbnails: the early return, the flush,
\* num_thumb = 0 and empty_list
UpdateBegin ==
  /\ Ok(table) /\ cycle.pc = "idle"
  /\ ~UpdateReturnsEarly(table)
  /\ table' = UpdateFlush(table)
  /\ cycle' = [pc |-> "populate", num |-> 0, empty_list |-> (UpdateFlush(table).list = <<>>)]
  /\ ev' = EvOther
  /\ UNCHANGED <<gamut, collection, v_scrollbar, h_scrollbar, mouse_over_id, keyboard_over_id,
                 selection, host>>

\* the critical section of _populate_thumbnails
UpdatePopulate ==
  /\ Ok(table) /\ cycle.pc = "populate"
  /\ LET p == _populate_thumbnails(table, cycle.num, NoFail, "crash")
     IN  /\ table' = p.t
         /\ cycle' = [cycle EXCEPT !.pc = IF cycle.empty_list THEN "done" ELSE "collect",
                                   !.num = p.num]
  /\ ev' = EvOther
  /\ UNCHANGED <<gamut, collection, v_scrollbar, h_scrollbar, mouse_over_id, keyboard_over_id,
                 selection, host>>

\* the critical section of _garbage_collection
UpdateGarbage ==
  /\ Ok(table) /\ cycle.pc = "collect"
  /\ LET g == _garbage_collection(table, cycle.num, FALSE)
     IN  /\ table' = g.t
         /\ cycle' = [cycle EXCEPT !.pc = "resize", !.num = g.num]
  /\ ev' = EvOther
  /\ UNCHANGED <<gamut, collection, v_scrollbar, h_scrollbar, mouse_over_id, keyboard_over_id,
                 selection, host>>

\* the critical section of _resize_thumbnails
UpdateResizeRest ==
  /\ Ok(table) /\ cycle.pc = "resize"
  /\ table' = _resize_thumbnails(table)
  /\ cycle' = [cycle EXCEPT !.pc = "done"]
  /\ ev' = EvOther
  /\ UNCHANGED <<gamut, collection, v_scrollbar, h_scrollbar, mouse_over_id, keyboard_over_id,
                 selection, host>>

\* the end of dt_thumbtable_update: thumb_nb and thumbs_inited
UpdateEnd ==
  /\ Ok(table) /\ cycle.pc = "done"
  /\ table' = UpdateDone([t |-> table, num |-> cycle.num])
  /\ cycle' = Idle
  /\ ev' = EvOther
  /\ UNCHANGED <<gamut, collection, v_scrollbar, h_scrollbar, mouse_over_id, keyboard_over_id,
                 selection, host>>

\* another control flow is notified that the collection is coll and runs
\* _dt_collection_get_hash, whose rebuild of the LUT takes the lock
LockedRebuild(coll) ==
  /\ Ok(table)
  /\ Cardinality({k \in 1..Len(table.list) : table.list[k].old}) <= MaxOld
  /\ CollectionChanged(table, coll)
  /\ collection' = coll
  /\ table' = _dt_collection_get_hash(table, coll, TRUE)
  /\ ev' = EvOther
  /\ UNCHANGED <<gamut, v_scrollbar, h_scrollbar, mouse_over_id, keyboard_over_id, selection, host,
                 cycle>>

NextLock ==
  \/ \E mode \in Modes : table.mode = "NONE" /\ cycle.pc = "idle" /\ SetParent(mode, Lucky)
  \/ \E value \in ScrollValues : cycle.pc = "idle" /\ Scroll(value)
  \/ UpdateBegin
  \/ UpdatePopulate
  \/ UpdateGarbage
  \/ UpdateResizeRest
  \/ UpdateEnd
  \/ \E coll \in LockCollections : LockedRebuild(coll)

SpecLock == InitLock /\ [][NextLock]_vars

-----------------------------------------------------------------------------
(* Changes of layout: thumbnails of 32 x 32 in two columns or in one, or of 64 x 32 in one    *)
(* column, in the lighttable grid or, after dt_thumbtable_set_parent, in the filmstrip.       *)

\* two columns of 32 pixels, one column of 32 pixels that is 32 pixels high, and one column
\* of 64 pixels that is 32 pixels high
LayoutHosts ==
  {[width |-> 64, height |-> 32, cols |-> 2], [width |-> 32, height |-> 32, cols |-> 1],
   [width |-> 64, height |-> 32, cols |-> 1]}

LayoutCollections == {[query |-> "A", ids |-> Ids("same", n)] : n \in {2, MaxCount}}

InitLayout ==
  /\ table = NewTable
  /\ collection \in LayoutCollections
  /\ host \in LayoutHosts
  /\ v_scrollbar = [value |-> 0, page_size |-> host.height]
  /\ h_scrollbar = [value |-> 0, page_size |-> host.width]
  /\ mouse_over_id = -1
  /\ keyboard_over_id = -1
  /\ selection = -1
  /\ ev = EvOther
  /\ cycle = Idle
  /\ gamut = NoPixel

\* the table moves between the centre of the lighttable and the filmstrip
NextLayout ==
  \/ \E hst \in LayoutHosts : HostResize(hst)
  \/ \E mode \in Modes : SetParent(mode, Lucky)
  \/ \E coll \in LayoutCollections : CollectionChangedCallback(coll, Lucky)
  \/ Draw(Lucky)
  \/ \E value \in ScrollValues : Scroll(value)

SpecLayout == InitLayout /\ [][NextLayout]_vars

-----------------------------------------------------------------------------
(* Properties *)

\* the links of the list that hold a thumbnail object
LiveSet == {k \in 1..Len(table.list) : ~IsNull(table.list[k])}

\* the thumbnail at link k is the one the LUT holds at its position
InSync(k) ==
  /\ table.list[k].rowid < Len(table.lut)
  /\ table.lut[table.list[k].rowid + 1].imgid = table.list[k].imgid

\* C1: after any update that ran a reconciliation cycle, every live object has the identifier
\* the Index holds at the object's position (an object for which this fails was destroyed
\* during the cycle, inside the window or not).
C1_Sync == ev.ran => \A k \in LiveSet : InSync(k)

\* C2: once the fingerprint of the dataset changed and update ran, no object that was live
\* before the change is left, and the Index is as long as the new dataset.
C2_Flushed ==
  ev.ran => /\ \A k \in LiveSet : ~table.list[k].old
            /\ Len(table.lut) = Len(collection.ids)

\* C3: in every reachable state every non-empty back-reference of the Index refers to an
\* object that is in the list: no entry references a destroyed object.
C3_NoDanglingRef ==
  \A i \in 1..Len(table.lut) :
    table.lut[i].thumb # NULL => table.lut[i].thumb \in {RefOf(table, k) : k \in LiveSet}

\* max_row_id - min_row_id clamped to [0, n]
WindowSize == CLAMP(table.max_row_id - table.min_row_id, 0, table.collection_count)

\* C4: at all times the number of live objects is at most max(THRESHOLD, window size).
C4_Bounded == Cardinality(LiveSet) <= MAX(THRESHOLD, WindowSize)

\* C5: after update, looking up the identifier of a live object returns the object's position.
C5_RoundTrip ==
  ev.ran => \A k \in LiveSet : _imgid_to_rowid(table, table.list[k].imgid) = table.list[k].rowid

\* C6: an update that follows an update directly, with no other event between them, changes
\* nothing: the list (objects, positions, coordinates) and the Index are as they were.
C6_Idempotent == [][(ev.update /\ \E c \in Chances : Update(c)) => table' = table]_vars

\* C6 happens: a second update ran directly after one that had materialized thumbnails
C6_SecondUpdate == ev.again /\ ev.update /\ table.thumbs_inited /\ table.list # <<>>

\* the LUT after the rebuild that a change to the collection coll triggers
Rebuilt(coll) == _dt_collection_get_hash(table, coll, TRUE).lut

\* C7: for a dataset of any size n >= 0, after a rebuild the Index has n entries, entry i holds
\* the i-th identifier of the dataset, and every back-reference is empty.
C7_Rebuild ==
  \A coll \in Collections :
    (Ok(table) /\ CollectionChanged(table, coll)) =>
      /\ Len(Rebuilt(coll)) = Len(coll.ids)
      /\ \A i \in 1..Len(coll.ids) : i <= Len(Rebuilt(coll)) => Rebuilt(coll)[i].imgid = coll.ids[i]
      /\ \A i \in 1..Len(Rebuilt(coll)) : Rebuilt(coll)[i].thumb = NULL

\* C8: in the grid layout, for every column count >= 1 and every geometry _grid_configure
\* accepted, no two distinct positions of the collection have the same coordinates.
C8_Injective ==
  (/\ table.mode = "FILEMANAGER" /\ table.configured /\ table.thumbs_per_row >= 1
   /\ table.view_width >= MIN_VIEW /\ table.view_height >= MIN_VIEW) =>
    \A p, q \in 0..(table.collection_count - 1) :
      p # q => _rowid_to_position(table, p, 0, 0) # _rowid_to_position(table, q, 0, 0)

\* the positions _populate_thumbnails materializes
WindowPositions ==
  MAX(table.min_row_id, 0)..(MIN(table.max_row_id, table.collection_count) - 1)

\* position p is materialized: its back-reference is an object of the list at that position
\* with the identifier of the Index
Materialized(p) ==
  /\ table.lut[p + 1].thumb \in {RefOf(table, k) : k \in LiveSet}
  /\ table.list[ListIndex(table, table.lut[p + 1].thumb)].rowid = p
  /\ table.list[ListIndex(table, table.lut[p + 1].thumb)].imgid = table.lut[p + 1].imgid

\* C9: after configure and a first update (nothing was materialized before it, no allocation
\* failed), every position of the window inside the dataset is materialized, and no live
\* object is stale.
C9_Materialized ==
  (ev.fresh /\ ~ListHasNull(table)) =>
    /\ \A p \in WindowPositions : Materialized(p)
    /\ \A k \in LiveSet : InSync(k)

\* C9 happens: a first update materialized a window that starts past the first position and
\* ends past the dataset
C9_FirstUpdate ==
  /\ ev.fresh /\ table.list # <<>>
  /\ table.min_row_id > 0 /\ table.max_row_id > table.collection_count

\* C10: the END key on a dataset of n >= 1 images resolves to position n - 1, whatever the
\* origin, an identifier that is not in the dataset included.
C10_End ==
  (ev.nav.direction = "END" /\ table.has_lut /\ table.collection_count >= 1) =>
    ev.nav.rowid = table.collection_count - 1

\* C10 happens: END was pressed with an origin that is in no collection
C10_EndFromAbsent ==
  /\ ev.nav.direction = "END" /\ table.has_lut /\ table.collection_count >= 2
  /\ _imgid_to_rowid(table, ev.nav.origin) = -1
  /\ ev.nav.rowid = table.collection_count - 1

\* C11: a navigation key on an empty dataset (the table is attached to a parent and was
\* notified of the dataset) is a no-op for every direction: the table (its
\* Index included) is as it was, the process has not died reading an Index entry, neither the
\* hover nor the keyboard-focus identifier changes, and nothing scrolls or refreshes.
C11_EmptyNoOp ==
  [][(/\ collection.ids = <<>> /\ table.collection_count = 0
      /\ table.collection_inited /\ table.mode # "NONE"
      /\ \E direction \in Directions : KeyPressed(direction, Lucky))
       => /\ table' = table
          /\ mouse_over_id' = mouse_over_id /\ keyboard_over_id' = keyboard_over_id
          /\ v_scrollbar' = v_scrollbar /\ h_scrollbar' = h_scrollbar
          /\ ~ev'.update]_vars

\* C12: the START key on a dataset of n >= 1 images resolves to position 0, whatever the
\* origin's position and identifier.
C12_Start ==
  (ev.nav.direction = "START" /\ table.has_lut /\ table.collection_count >= 1) =>
    ev.nav.rowid = 0

\* C13: for every direction and every origin, an identifier that is not in the dataset
\* included, the position a navigation key resolves to on a dataset of n >= 1 images is
\* within [0, n - 1].
C13_TargetInRange ==
  (ev.nav.how \in {"scroll", "refresh"} /\ table.collection_count >= 1) =>
    (ev.nav.rowid >= 0 /\ ev.nav.rowid <= table.collection_count - 1)

\* C13 happens: a key that moves past the last position of a dataset of several images was
\* pressed with an origin that is in no collection, and the target is the last position
C13_PastTheEnd ==
  /\ ev.nav.direction \in {"RIGHT", "DOWN", "NEXT_PAGE"} /\ ev.nav.how \in {"scroll", "refresh"}
  /\ table.collection_count >= 2
  /\ ev.nav.rowid = table.collection_count - 1

\* the target of a navigation key pressed in the current state, and whether it is visible
NavTarget(direction) ==
  MoveTarget(table, direction, KeyOrigin(table, keyboard_over_id, mouse_over_id, selection))

NavVisible(direction) ==
  _is_rowid_visible(table, v_scrollbar, h_scrollbar, NavTarget(direction))

\* a navigation key pressed in the current state computes a target: the geometry is
\* configured, the dataset is loaded and not empty, the key is not ignored
NavComputes(direction) ==
  /\ table.configured /\ table.has_lut /\ table.collection_count >= 1
  /\ ~MoveDivZero(table, direction)
  /\ ~(direction \in {"UP", "DOWN"} /\ table.mode # "FILEMANAGER")

\* the scroll offset that centres a position in the viewport (the adjustment stops at 0)
CentredOn(rowid) ==
  LET p == _rowid_to_position(table, rowid, 0, 0)
  IN  [v |-> MAX(p[2] + CDiv(table.thumb_height, 2) - CDiv(table.view_height, 2), 0),
       h |-> MAX(p[1] + CDiv(table.thumb_width, 2) - CDiv(table.view_width, 2), 0)]

Rowids(list) == {list[k].rowid : k \in {j \in 1..Len(list) : ~IsNull(list[j])}}

\* how far a position lies outside the window [min_row_id, max_row_id) of a table (0: inside)
WindowDistance(t, rowid) ==
  IF rowid < t.min_row_id THEN t.min_row_id - rowid
  ELSE IF rowid >= t.max_row_id THEN rowid - t.max_row_id + 1
  ELSE 0

\* C15: while the window moves forward row by row over more than THRESHOLD positions, after
\* every update cycle at most THRESHOLD objects are live, and the objects the cycle evicted are
\* the ones furthest outside the window: no object that survives lies farther outside the
\* window than an evicted one.
C15_EvictFurthest ==
  [][ev'.ran =>
       /\ Cardinality(Rowids(table'.list)) <= THRESHOLD
       /\ \A e \in Rowids(table.list) \ Rowids(table'.list) :
            \A r \in Rowids(table'.list) :
              WindowDistance(table', r) <= WindowDistance(table', e)]_vars

\* C16: while the geometry is degenerate (fewer than one column, or a cell width or height
\* that is not positive) the table counts as unconfigured, so that update returns without
\* touching the Index or the list.
C16_DegenerateUnconfigured ==
  (table.thumbs_per_row < 1 \/ table.thumb_width <= 0 \/ table.thumb_height <= 0)
    => (~table.configured /\ table.life # "crashed")

\* C17: when dt_thumbnail_new fails for a position, the back-reference of the position stays
\* empty, the list gains no entry for it (every link of the list holds a thumbnail, and the
\* count of thumbnails is the length of the list), the cycle goes on, and later cycles and
\* traversals of the list run as usual (the process does not die).
C17_FailureSkipped ==
  /\ table.life # "crashed"
  /\ ~ListHasNull(table)
  /\ table.thumb_nb = Len(table.list)

\* C18: when the allocation of the new Index fails while the dataset is re-fetched, the table
\* keeps its previous Index, cardinality and fingerprint.
C18_FetchFailureKeeps ==
  [][\A coll \in FailCollections :
       (/\ table.has_lut /\ CollectionChanged(table, coll)
        /\ CollectionChangedCallback(coll, MallocFails)) =>
         /\ table'.lut = table.lut /\ table'.has_lut = table.has_lut
         /\ table'.collection_count = table.collection_count
         /\ table'.collection_hash = table.collection_hash]_vars

\* the table after change detection ran for a notification that the dataset is coll
Notified(coll) == _dt_collection_get_hash(table, coll, TRUE)

\* the Index of a dataset, rebuilt in full: its identifiers in order, no back-reference
FullIndex(coll) == [i \in 1..Len(coll.ids) |-> [imgid |-> coll.ids[i], thumb |-> NULL]]

\* C20: the fingerprint comparison alone decides the rebuild: a notification whose fingerprint
\* (query, cardinality) equals the stored one, with no reset pending, leaves the Index
\* (identifiers and back-references), the cardinality and the stored fingerprint as they are;
\* a notification whose fingerprint differs rebuilds the Index in full.
C20_FingerprintTrigger ==
  \A coll \in Collections :
    Ok(table) =>
      IF Fingerprint(coll) = table.collection_hash /\ ~table.reset_collection
        THEN /\ Notified(coll).lut = table.lut
             /\ Notified(coll).collection_count = table.collection_count
             /\ Notified(coll).collection_hash = table.collection_hash
        ELSE /\ Fingerprint(coll) # table.collection_hash =>
                  /\ Notified(coll).lut = FullIndex(coll)
                  /\ Notified(coll).collection_count = Len(coll.ids)
                  /\ Notified(coll).collection_hash = Fingerprint(coll)

\* C19: the steps of one update cycle (populate, collect, resize, and the reads of the Index
\* and the list the cycle depends on) are one critical section: while a cycle is in progress
\* no other holder of the lock modifies the Index or the list.
C19_OneCriticalSection ==
  [][(cycle.pc # "idle" /\ cycle'.pc = cycle.pc) =>
       (table'.lut = table.lut /\ table'.list = table.list)]_vars

\* the thumbnail objects of a list, each as <<position, identifier>>
Objects(list) == {<<list[k].rowid, list[k].imgid>> : k \in {j \in 1..Len(list) : ~IsNull(list[j])}}

\* the LUT of a table holds another identifier at the position of the object o, or no entry
Stale(t, o) == o[1] >= Len(t.lut) \/ t.lut[o[1] + 1].imgid # o[2]

\* C21: collect destroys a live object if and only if it is stale or (more than THRESHOLD
\* objects are live and its position is outside the half-open window [min_row_id, max_row_id)):
\* after a cycle no stale object is left; while more than THRESHOLD objects are left none of
\* them lies outside the window, the position max_row_id counting as outside; and an object
\* the cycle destroyed was stale, or outside the window with more than THRESHOLD objects live.
C21_CollectPolicy ==
  [][(ev'.ran /\ ~table.reset_collection) =>
       /\ \A o \in Objects(table'.list) : ~Stale(table', o)
       /\ Cardinality(Objects(table'.list)) > THRESHOLD =>
            \A o \in Objects(table'.list) : WindowDistance(table', o[1]) = 0
       /\ \A o \in Objects(table.list) \ Objects(table'.list) :
            \/ Stale(table', o)
            \/ /\ WindowDistance(table', o[1]) > 0
               /\ Cardinality(Objects(table.list) \cup Objects(table'.list)) > THRESHOLD]_vars

\* the table dt_thumbtable_update is called on when the table is notified that the dataset is
\* coll: after change detection and configure (the table itself when neither changes anything)
Arriving(coll) ==
  dt_thumbtable_configure(_dt_collection_get_hash(table, coll, TRUE), v_scrollbar, h_scrollbar,
                          host.width, host.height, host.cols)

\* the cycle that update runs then, step by step: [t, num] after _populate_thumbnails, and
\* after _garbage_collection; started: the table after the flush
CyclePopulated(started) == _populate_thumbnails(started, 0, NoFail, "crash")

CycleCollected(started, p) == UpdateCollect(p, started.list = <<>>, FALSE)

\* the objects _populate_thumbnails created are the first num links of the list it returns;
\* they are all among the links of the list g.t.list, in the same order
CreatedSurvive(p, g) ==
  /\ Len(g.t.list) >= p.num
  /\ SubSeq(g.t.list, 1, p.num) = SubSeq(p.t.list, 1, p.num)

\* C22: within one update cycle populate runs first, then collect, then the resize of the
\* remainder (the cycle is their composition in that order), and no object populate created in
\* the cycle is destroyed by collect in the same cycle.
C22_PopulateCollectResize ==
  \A coll \in BigCollections :
    (Ok(table) /\ Ok(Arriving(coll)) /\ ~UpdateReturnsEarly(Arriving(coll))) =>
      LET started == UpdateFlush(Arriving(coll))
          p == CyclePopulated(started)
          g == CycleCollected(started, p)
      IN  /\ CreatedSurvive(p, g)
          /\ dt_thumbtable_update(Arriving(coll), NoFail, "crash", FALSE)
               = UpdateDone(UpdateResize(g, started.list = <<>>))

\* C22 happens: a cycle is about to run in which populate creates objects and collect destroys
\* others
C22_CreatesAndCollects ==
  \E coll \in BigCollections :
    /\ Ok(table) /\ Ok(Arriving(coll)) /\ ~UpdateReturnsEarly(Arriving(coll))
    /\ LET started == UpdateFlush(Arriving(coll))
           p == CyclePopulated(started)
           g == CycleCollected(started, p)
       IN  p.num >= 1 /\ Len(g.t.list) < Len(p.t.list) /\ Len(g.t.list) > p.num

\* C23: after any update cycle every live object, inside the window or not, has the cached
\* width and height of the active cell and the coordinates of its position under the current
\* geometry (mode, column count, cell size), also after a change of the column count or of the
\* mode that leaves the cell size unchanged.
C23_GeometryCurrent ==
  ev.ran =>
    \A k \in LiveSet :
      /\ table.list[k].width = table.thumb_width
      /\ table.list[k].height = table.thumb_height
      /\ <<table.list[k].x, table.list[k].y>> = _rowid_to_position(table, table.list[k].rowid, 0, 0)

\* C24: for every position p >= 0 and every column count >= 1, _rowid_to_position maps p to
\* ((p mod columns) * cell width, (p div columns) * cell height) in the grid and to
\* (p * cell width, 0) in the filmstrip.
C24_PositionToCoords ==
  \A p \in 0..MaxCount :
    /\ (table.mode = "FILEMANAGER" /\ table.thumbs_per_row >= 1) =>
         _rowid_to_position(table, p, 0, 0)
           = <<(p % table.thumbs_per_row) * table.thumb_width,
               (p \div table.thumbs_per_row) * table.thumb_height>>
    /\ table.mode = "FILMSTRIP" =>
         _rowid_to_position(table, p, 0, 0) = <<p * table.thumb_width, 0>>

\* C24 happens: in a grid of two columns a thumbnail of the second row and second column was
\* placed at its coordinates
C24_SecondRowPlaced ==
  /\ table.mode = "FILEMANAGER" /\ table.thumbs_per_row = 2
  /\ \E k \in LiveSet :
       /\ table.list[k].rowid = 3 /\ table.list[k].x > 0 /\ table.list[k].y > 0
       /\ <<table.list[k].x, table.list[k].y>> = _rowid_to_position(table, 3, 0, 0)

\* the window _get_row_ids computes from the scrollbars and the geometry of the current state
Window == _get_row_ids(table, v_scrollbar, h_scrollbar, 0, DEFAULT_ROWID_MAX)

\* C25: for every scroll offset, page size and configured geometry, the window
\* [min, max) _get_row_ids computes holds every position of the visible range, a partially
\* visible last row or cell included, and two more rows (grid) or two more cells (filmstrip)
\* before and after it.
C25_WindowCoversMargin ==
  (/\ Ok(table) /\ table.configured /\ table.thumbs_per_row >= 1
   /\ table.thumb_width > 0 /\ table.thumb_height > 0) =>
    /\ (table.mode = "FILEMANAGER" /\ v_scrollbar.page_size > 0) =>
         LET first_row == v_scrollbar.value \div table.thumb_height
             last_row == (v_scrollbar.value + v_scrollbar.page_size - 1) \div table.thumb_height
         IN  /\ Window.min <= (first_row - 2) * table.thumbs_per_row
             /\ Window.max >= (last_row + 2 + 1) * table.thumbs_per_row
    /\ (table.mode = "FILMSTRIP" /\ h_scrollbar.page_size > 0) =>
         LET first_cell == h_scrollbar.value \div table.thumb_width
             last_cell == (h_scrollbar.value + h_scrollbar.page_size - 1) \div table.thumb_width
         IN  /\ Window.min <= first_cell - 2
             /\ Window.max >= last_cell + 2 + 1

\* C26: _is_rowid_visible(p) is decided from the unpadded visible range: it is true exactly
\* when the cell of p lies within [scroll offset, scroll offset + page size] along the scroll
\* axis of the mode (the rows of the grid, the cells of the filmstrip), whatever the prefetch
\* margin, and false whenever the table is not configured.
C26_VisibleUnpadded ==
  \A p \in 0..MaxCount :
    Ok(table) =>
      LET visible == _is_rowid_visible(table, v_scrollbar, h_scrollbar, p)
          cell == _rowid_to_position(table, p, 0, 0)
      IN  IF ~table.configured THEN visible = "no"
          ELSE /\ (table.mode = "FILEMANAGER" /\ table.thumbs_per_row >= 1) =>
                    (visible = "yes" <=>
                       /\ cell[2] >= v_scrollbar.value
                       /\ cell[2] + table.thumb_height <= v_scrollbar.value + v_scrollbar.page_size)
               /\ table.mode = "FILMSTRIP" =>
                    (visible = "yes" <=>
                       /\ cell[1] >= h_scrollbar.value
                       /\ cell[1] + table.thumb_width <= h_scrollbar.value + h_scrollbar.page_size)

\* the arrow keys, and the step the target of each lies from the origin in a table t
Arrows == {"UP", "DOWN", "LEFT", "RIGHT"}

ArrowStep(t, direction) ==
  CASE direction = "UP" -> - t.thumbs_per_row
    [] direction = "DOWN" -> t.thumbs_per_row
    [] direction = "LEFT" -> -1
    [] direction = "RIGHT" -> 1

\* C27: UP and DOWN move the target by -columns and +columns and are accepted in the grid
\* only (elsewhere the key is rejected: the table, hover, keyboard focus and scroll offsets
\* stay as they are); LEFT and RIGHT move the target by -1 and +1 in both modes; the target
\* is then clamped to the dataset.
C27_ArrowKeys ==
  [][\A direction \in Arrows :
       (ev'.nav.direction = direction /\ KeyPressed(direction, Lucky)) =>
         IF direction \in {"UP", "DOWN"} /\ table.mode # "FILEMANAGER"
           THEN /\ ev'.nav.how = "ignored"
                /\ table' = table
                /\ mouse_over_id' = mouse_over_id /\ keyboard_over_id' = keyboard_over_id
                /\ v_scrollbar' = v_scrollbar /\ h_scrollbar' = h_scrollbar
           ELSE /\ ev'.nav.how # "ignored"
                /\ ev'.nav.how \in {"scroll", "refresh"} =>
                     ev'.nav.rowid = CLAMP(_imgid_to_rowid(table, ev'.nav.origin)
                                             + ArrowStep(table, direction),
                                           0, table.collection_count - 1)]_vars

\* C27 happens: DOWN in a grid of two columns moved the target two positions on, within the
\* dataset
C27_DownOneRow ==
  /\ ev.nav.direction = "DOWN" /\ ev.nav.how \in {"scroll", "refresh"}
  /\ table.mode = "FILEMANAGER" /\ table.thumbs_per_row = 2
  /\ _imgid_to_rowid(table, ev.nav.origin) >= 0
  /\ ev.nav.rowid = _imgid_to_rowid(table, ev.nav.origin) + 2

\* the page keys of _key_pressed_grid
PageKeys == {"PREVIOUS_PAGE", "NEXT_PAGE"}

\* C28: PAGE_UP and PAGE_DOWN move the target back and forth by
\* floor(view height / cell height) * columns positions in the grid and by
\* floor(view width / cell width) positions in the filmstrip; the target is then clamped to the
\* dataset.
C28_PageKeys ==
  [][\A direction \in PageKeys :
       (/\ ev'.nav.direction = direction /\ KeyPressed(direction, Lucky)
        /\ table.mode # "NONE" /\ table.configured
        /\ table.thumb_width > 0 /\ table.thumb_height > 0
        /\ ev'.nav.how \in {"scroll", "refresh"}) =>
         LET page == IF table.mode = "FILEMANAGER"
                       THEN (table.view_height \div table.thumb_height) * table.thumbs_per_row
                       ELSE table.view_width \div table.thumb_width
         IN  ev'.nav.rowid = CLAMP(_imgid_to_rowid(table, ev'.nav.origin)
                                     + (IF direction = "NEXT_PAGE" THEN page ELSE - page),
                                   0, table.collection_count - 1)]_vars

\* C29: the origin of a navigation key is the keyboard-focus identifier if set, else the
\* pointer-hover identifier, else the first selected item, else the item at position 0: a
\* later source is consulted only when every earlier one is unset.
C29_OriginOrder ==
  [][\A direction \in Directions :
       (ev'.nav.direction = direction /\ KeyPressed(direction, Lucky)) =>
         /\ keyboard_over_id >= 0 => ev'.nav.origin = keyboard_over_id
         /\ (keyboard_over_id < 0 /\ mouse_over_id >= 0) => ev'.nav.origin = mouse_over_id
         /\ (keyboard_over_id < 0 /\ mouse_over_id < 0 /\ selection >= 0) =>
              ev'.nav.origin = selection
         /\ (keyboard_over_id < 0 /\ mouse_over_id < 0 /\ selection < 0 /\ table.has_lut) =>
              ev'.nav.origin = table.lut[1].imgid]_vars

\* C29 happens: a key was handled (and ignored, so that nothing moved) from the keyboard
\* focus while another image was hovered and a third one selected
C29_FocusBeforeHover ==
  /\ ev.nav.how = "ignored"
  /\ keyboard_over_id >= 0 /\ mouse_over_id >= 0 /\ selection >= 0
  /\ mouse_over_id # keyboard_over_id /\ selection # keyboard_over_id
  /\ selection # mouse_over_id
  /\ ev.nav.origin = keyboard_over_id

\* the geometry of a table: mode, column count, cell size and viewport size
Geometry(t) ==
  <<t.mode, t.thumbs_per_row, t.thumb_width, t.thumb_height, t.view_width, t.view_height>>

\* the table _draw_callback calls dt_thumbtable_update on: after dt_thumbtable_configure
Configured == dt_thumbtable_configure(table, v_scrollbar, h_scrollbar,
                                      host.width, host.height, host.cols)

\* C30: update runs a reconciliation cycle if and only if the Index exists, the geometry is
\* configured, and since the last completed cycle the window changed, the geometry changed,
\* the Index was rebuilt or a refresh was requested.  For a redraw (configure, then update)
\* that follows a completed cycle directly: the cycle runs exactly when configure changed the
\* geometry or the window.  For a scroll event on a table whose last cycle completed: the next
\* update populates the new window if the event changed the window, and returns at once if
\* it did not.
C30_CycleWhenChanged ==
  [][/\ (ev.ran /\ Draw(Lucky)) =>
          (ev'.ran <=> /\ Configured.has_lut /\ Configured.configured
                       /\ \/ Geometry(Configured) # Geometry(table)
                          \/ Configured.min_row_id # table.min_row_id
                          \/ Configured.max_row_id # table.max_row_id)
     /\ \A value \in ScrollValues :
          (/\ ~ev'.update /\ Scroll(value)
           /\ table.has_lut /\ table.configured /\ table.thumbs_inited) =>
             LET next == dt_thumbtable_update(table', NoFail, "crash", FALSE)
             IN  IF table'.min_row_id # table.min_row_id \/ table'.max_row_id # table.max_row_id
                   THEN Ok(next) => (next.thumbs_inited /\ next # table')
                   ELSE next = table']_vars

\* C31: no operation divides by a zero column count or a zero cell dimension: whenever the
\* table is configured the window and the visibility of every position are computable, and a
\* page key handled on a table that has a parent found a cell height of at least 1 to divide
\* the viewport by.
C31_NoDivisionByZero ==
  /\ (table.configured /\ table.mode # "NONE") =>
       /\ ~Window.div0
       /\ \A p \in 0..MaxCount : _is_rowid_visible(table, v_scrollbar, h_scrollbar, p) # "div0"
  /\ (ev.nav.direction \in PageKeys /\ table.mode # "NONE") => table.thumb_height >= 1

\* the cycle that ran on a pending reset request left a table t with the request cleared and
\* nothing but the thumbnails it created itself: none predates the collection, none lies
\* outside the positions populate materializes
FlushedAndCleared(t) ==
  /\ Ok(t) /\ ~t.reset_collection
  /\ \A k \in 1..Len(t.list) :
       /\ ~IsNull(t.list[k]) /\ ~t.list[k].old
       /\ t.list[k].rowid >= MAX(t.min_row_id, 0)
       /\ t.list[k].rowid < MIN(t.max_row_id, t.collection_count)

\* C32: after a force-reset request the next dataset-changed notification rebuilds the Index
\* even when the fingerprint is unchanged, and the next update cycle flushes the whole LiveSet
\* before it populates and then clears the request: when the cycle is over the request is
\* cleared and only thumbnails created by the cycle are left.
C32_ForceReset ==
  [][/\ \A coll \in Collections :
          (/\ Ok(table) /\ table.reset_collection /\ collection' = coll
           /\ CollectionChangedCallback(coll, Lucky)) =>
             /\ Notified(coll).lut = FullIndex(coll)
             /\ (Ok(Arriving(coll)) /\ ~UpdateReturnsEarly(Arriving(coll))) =>
                  FlushedAndCleared(table')
     /\ (/\ Ok(table) /\ table.reset_collection /\ ~UpdateReturnsEarly(table)
         /\ Update(Lucky)) => FlushedAndCleared(table')]_vars

\* C33: every read or write of an Index entry uses a position inside a non-null Index: the
\* target a navigation key read the identifier of lies inside the Index, and every thumbnail
\* whose position the staleness test of the next garbage collection looks up lies inside the
\* Index the cycle runs on, whatever dataset the table is notified of.
C33_IndexInBounds ==
  /\ (/\ ev.nav.how \in {"scroll", "refresh", "crash"} /\ table.mode # "NONE"
      /\ ~MoveDivZero(table, ev.nav.direction)) =>
       /\ table.has_lut
       /\ ev.nav.rowid >= 0 /\ ev.nav.rowid < Len(table.lut)
  /\ \A coll \in NavCollections :
       (/\ Ok(table) /\ Ok(Arriving(coll)) /\ ~UpdateReturnsEarly(Arriving(coll))
        /\ ~Arriving(coll).reset_collection) =>
         \A k \in 1..Len(Arriving(coll).list) :
           ~IsNull(Arriving(coll).list[k]) =>
             Arriving(coll).list[k].rowid < Len(Arriving(coll).lut)

\* C34: after every update cycle the list holds at most one thumbnail per position, the
\* back-reference of the Index at the position of every thumbnail is that thumbnail, and
\* every non-empty back-reference is a thumbnail of the list (thumbnails and back-references
\* correspond one to one), also after a change of the collection that keeps an image at its
\* position.
C34_OneToOne ==
  (ev.ran /\ Ok(table)) =>
    /\ \A k, j \in LiveSet : table.list[k].rowid = table.list[j].rowid => k = j
    /\ \A k \in LiveSet :
         /\ table.list[k].rowid < Len(table.lut)
         /\ table.lut[table.list[k].rowid + 1].thumb = RefOf(table, k)
    /\ \A i \in 1..Len(table.lut) :
         table.lut[i].thumb # NULL =>
           /\ table.lut[i].thumb \in {RefOf(table, k) : k \in LiveSet}
           /\ table.list[ListIndex(table, table.lut[i].thumb)].rowid = i - 1

\* C35: after every completed update cycle thumb_nb is the number of thumbnails the list
\* holds, and a flushed (empty) list has a thumb_nb of 0, so that the eviction test of the
\* next cycle compares the true number of thumbnails with the threshold.
C35_CounterIsSize ==
  /\ (ev.ran /\ Ok(table)) => table.thumb_nb = Cardinality(LiveSet)
  /\ (Ok(table) /\ table.list = <<>>) => table.thumb_nb = 0

\* C36: every operation that locks table->lock unlocks it on every path out of it, the return
\* after a failed allocation of the Index included, and none locks it while its own control
\* flow holds it: between two handlers the lock is free, and no handler waits for it for ever.
C36_LockReleased == table.life # "blocked" /\ ~table.locked

\* C36 happens: the allocation of the Index failed (no Index for a collection that has
\* images), _dt_collection_lut returned through that path and the process lives on
C36_FailurePathTaken ==
  Ok(table) /\ ~table.has_lut /\ table.collection_count > 0 /\ table.collection_inited

\* C37: every callback dt_thumbtable_new connected with the table as user data is
\* disconnected by dt_thumbtable_cleanup: once the table is freed no callback is left that
\* a signal could call with it.
C37_AllDisconnected == table.life = "freed" => table.signals = {}

\* C38: when the table is configured and its window [min_row_id, max_row_id) is the one
\* _get_row_ids computes for the current scroll state, every position _is_rowid_visible
\* judges visible lies inside the window, in the grid and in the filmstrip.
C38_VisibleInsideWindow ==
  (/\ Ok(table) /\ table.configured /\ table.mode # "NONE"
   /\ Window.ok /\ ~Window.div0
   /\ table.min_row_id = Window.min /\ table.max_row_id = Window.max) =>
    \A p \in 0..MaxCount :
      _is_rowid_visible(table, v_scrollbar, h_scrollbar, p) = "yes" =>
        (table.min_row_id <= p /\ p < table.max_row_id)

-----------------------------------------------------------------------------
(* Scrolling to an image: the idle callback dt_thumbtable_scroll_to_selection that        *)
(* _dt_collection_changed_callback and dt_thumbtable_set_parent schedule                   *)

\* the identifier dt_thumbtable_scroll_to_selection asks for
SelectionId(sel, kbd, mouse) == IF sel >= 0 THEN sel ELSE IF kbd >= 0 THEN kbd ELSE mouse

\* dt_thumbtable_scroll_to_selection, run from the idle queue.  It is scheduled by a change
\* of the collection and by dt_thumbtable_set_parent and runs some time later, other events
\* coming first; here it may run at any time after either, which covers every such order
ScrollToSelection ==
  /\ Ok(table)
  /\ table.collection_inited \/ table.mode # "NONE"
  /\ LET r == dt_thumbtable_scroll_to_imgid(
                [t |-> table, vs |-> v_scrollbar, hs |-> h_scrollbar],
                SelectionId(selection, keyboard_over_id, mouse_over_id))
     IN  /\ table' = r.t
         /\ v_scrollbar' = r.vs
         /\ h_scrollbar' = r.hs
  /\ ev' = EvOther
  /\ UNCHANGED <<gamut, collection, mouse_over_id, keyboard_over_id, selection, host, cycle>>

SeekHost == [width |-> 64, height |-> 32, cols |-> 2]

\* the same query with 0, 2 or MaxCount images
SeekCollections == {[query |-> "A", ids |-> Ids("same", n)] : n \in {0, 2, MaxCount}}

InitSeek ==
  /\ table = NewTable
  /\ collection \in SeekCollections
  /\ v_scrollbar = [value |-> 0, page_size |-> SeekHost.height]
  /\ h_scrollbar = [value |-> 0, page_size |-> SeekHost.width]
  /\ mouse_over_id = -1
  /\ keyboard_over_id = -1
  /\ selection \in SelectionIds
  /\ host = SeekHost
  /\ ev = EvOther
  /\ cycle = Idle
  /\ gamut = NoPixel

NextSeek ==
  \/ \E mode \in Modes : table.mode = "NONE" /\ SetParent(mode, Lucky)
  \/ \E coll \in SeekCollections : CollectionChangedCallback(coll, Lucky)
  \/ \E id \in SelectionIds : Select(id)
  \/ \E id \in NavHoverIds : MouseOver(id)
  \/ \E value \in ScrollValues : Scroll(value)
  \/ ScrollToSelection

SpecSeek == InitSeek /\ [][NextSeek]_vars

\* C39: dt_thumbtable_scroll_to_imgid returns 1 and leaves the scrollbars as they are when
\* the collection is not initialised or the identifier is negative; it returns 0 and leaves
\* them as they are when the LUT does not hold the identifier; the scrollbars move only
\* when the LUT holds the identifier.
C39_ScrollToImgid ==
  [][ScrollToSelection =>
       LET imgid == SelectionId(selection, keyboard_over_id, mouse_over_id)
           code == dt_thumbtable_scroll_to_imgid(
                     [t |-> table, vs |-> v_scrollbar, hs |-> h_scrollbar], imgid).code
           held == \E i \in 1..Len(table.lut) : table.lut[i].imgid = imgid
           moved == v_scrollbar' # v_scrollbar \/ h_scrollbar' # h_scrollbar
       IN  /\ (~table.collection_inited \/ imgid < 0) => (code = 1 /\ ~moved)
           /\ (table.collection_inited /\ imgid >= 0 /\ ~held) => (code = 0 /\ ~moved)
           /\ moved => (held /\ code = 0)]_vars

\* C39 happens: the selected image 3 was scrolled to in the grid of two columns; its row
\* starts at 32, an offset the scrollbar reaches in no other way
C39_ScrolledToSelection ==
  /\ Ok(table) /\ table.mode = "FILEMANAGER" /\ selection = 3
  /\ table.collection_count = MaxCount /\ v_scrollbar.value = 32

-----------------------------------------------------------------------------
(* gamut_check_RGB of the filmic kernel: a pixel is brought back between display black and *)
(* display white, one iteration of its loops at a time.  Floats are the integers            *)
(* -1 .. MaxPix and NaN; the conversions between RGB and Ych, whose parts are not in the    *)
(* file, return any pixel.                                                                  *)

MaxPix == 2

max_iter == 8

\* the float that is not a number
NaN == 1000

Floats == ((0 - 1)..MaxPix) \cup {NaN}

\* fmax, fmin: a NaN argument is ignored
fmax(a, b) == IF a = NaN THEN b ELSE IF b = NaN THEN a ELSE IF a > b THEN a ELSE b

fmin(a, b) == IF a = NaN THEN b ELSE IF b = NaN THEN a ELSE IF a < b THEN a ELSE b

\* a > b of floats: false when either is NaN
Greater(a, b) == a # NaN /\ b # NaN /\ a > b

\* clamp(x, minval, maxval) = fmin(fmax(x, minval), maxval), on each channel
clamp(RGB, minval, maxval) == [c \in 1..3 |-> fmin(fmax(RGB[c], minval), maxval)]

\* what Ych_to_pipe_RGB may return
Ych_to_pipe_RGB == [1..3 -> Floats]

\* max_pix and min_pix of the pixel
MaxChannel(RGB) == fmax(fmax(RGB[1], RGB[2]), RGB[3])

MinChannel(RGB) == fmin(fmin(RGB[1], RGB[2]), RGB[3])

\* mutant: the loop runs while iter <= max_iter
WhileOverWhite_OneMore(g) ==
  Greater(MaxChannel(g.RGB_in), g.display_white) /\ g.iter <= max_iter

\* the condition of the first loop
WhileOverWhite(g) ==
  Greater(MaxChannel(g.RGB_in), g.display_white) /\ g.iter < max_iter

\* the condition of the second loop
WhileUnderBlack(g) ==
  Greater(g.display_black, MinChannel(g.RGB_in)) /\ g.iter < max_iter

\* the display ranges [display_black, display_white] of the callers
DisplayRanges == {<<0, 1>>, <<0, MaxPix>>}

InitGamut ==
  /\ table = NewTable
  /\ collection = [query |-> "A", ids |-> <<>>]
  /\ v_scrollbar = [value |-> 0, page_size |-> 0]
  /\ h_scrollbar = [value |-> 0, page_size |-> 0]
  /\ mouse_over_id = -1
  /\ keyboard_over_id = -1
  /\ selection = -1
  /\ host = SeekHost
  /\ ev = EvOther
  /\ cycle = Idle
  /\ \E RGB \in [1..3 -> Floats], range \in DisplayRanges :
       gamut = [pc |-> "white", iter |-> 0, RGB_in |-> RGB, display_black |-> range[1],
                display_white |-> range[2], out |-> NoPixel.out]

GamutUnchanged ==
  UNCHANGED <<table, collection, v_scrollbar, h_scrollbar, mouse_over_id, keyboard_over_id,
              selection, host, ev, cycle>>

\* one iteration of the first loop: the pixel is darkened
OverWhite ==
  /\ gamut.pc = "white" /\ WhileOverWhite(gamut)
  /\ \E RGB \in Ych_to_pipe_RGB :
       gamut' = [gamut EXCEPT !.RGB_in = RGB, !.iter = gamut.iter + 1]
  /\ GamutUnchanged

\* the first loop ends: min_pix is taken and iter starts again
LookForNegatives ==
  /\ gamut.pc = "white" /\ ~WhileOverWhite(gamut)
  /\ gamut' = [gamut EXCEPT !.pc = "black", !.iter = 0]
  /\ GamutUnchanged

\* one iteration of the second loop: the pixel is brightened
UnderBlack ==
  /\ gamut.pc = "black" /\ WhileUnderBlack(gamut)
  /\ \E RGB \in Ych_to_pipe_RGB :
       gamut' = [gamut EXCEPT !.RGB_in = RGB, !.iter = gamut.iter + 1]
  /\ GamutUnchanged

\* the second loop ends: the clamped pixel is returned
ReturnClamped ==
  /\ gamut.pc = "black" /\ ~WhileUnderBlack(gamut)
  /\ gamut' = [gamut EXCEPT !.pc = "done",
                            !.out = clamp(gamut.RGB_in, gamut.display_black,
                                          gamut.display_white)]
  /\ GamutUnchanged

NextGamut ==
  \/ OverWhite
  \/ LookForNegatives
  \/ UnderBlack
  \/ ReturnClamped

SpecGamut == InitGamut /\ [][NextGamut]_vars

\* the call runs on until it returns
SpecGamutFair == SpecGamut /\ WF_vars(NextGamut)

\* C40: gamut_check_RGB terminates: neither loop runs more than max_iter = 8 iterations,
\* whatever the pixel, the call returns, and every channel of the pixel it returns lies
\* between display_black and display_white.
C40_Terminates ==
  /\ [](/\ gamut.iter <= max_iter
        /\ gamut.pc = "done" =>
             \A c \in 1..3 : /\ gamut.out[c] >= gamut.display_black
                             /\ gamut.out[c] <= gamut.display_white)
  /\ <>(gamut.pc = "done")

\* C40 happens: the first loop made its 8 iterations and the pixel is still over white
C40_StoppedByBound ==
  /\ gamut.pc = "white" /\ gamut.iter = max_iter
  /\ Greater(MaxChannel(gamut.RGB_in), gamut.display_white)

====
